---- MODULE Spec2Model ----
(***************************************************************************)
(* A model of the device-binary packaging pipeline of iree-amd-aie         *)
(* (Target/XCLBinGen.cpp): the optimizer flag composer, the instruction    *)
(* dump, the per-core ELF builder, CDO/PDI generation, the xclbin packager *)
(* and the orchestrator aie2xclbin.                                        *)
(*                                                                         *)
(* Conventions.  A std::string whose characters the code inspects is a     *)
(* sequence of one-character strings.  A file name that the code only      *)
(* concatenates and compares is a TLA+ string.  A std::filesystem::path is *)
(* the sequence of its components, the root "/" being the first component  *)
(* of an absolute path.  A FailureOr<T> is a record [ok, ...].             *)
(***************************************************************************)
EXTENDS Integers, Sequences, FiniteSets, TLC

(***************************************************************************)
(* Bounds of the model.                                                    *)
(***************************************************************************)
\* longest additional-flag string enumerated character by character
MaxLen == 5
\* most tokens of an additional-flag string enumerated token by token
MaxTokens == 2

(***************************************************************************)
(* Strings as character sequences.                                         *)
(***************************************************************************)
DQ == "\""

\* a splitter that knows the blank only
IsSpaceBlankOnly(c) == c = " "

\* std::istream_iterator<std::string> splits on std::isspace
IsSpace(c) == c \in {" ", "\t", "\n", "\r", "\f"}

RECURSIVE SkipSpace(_)
SkipSpace(s) ==
    IF s = <<>> THEN <<>>
    ELSE IF IsSpace(Head(s)) THEN SkipSpace(Tail(s)) ELSE s

RECURSIVE TakeWord(_)
TakeWord(s) ==
    IF s = <<>> THEN <<>>
    ELSE IF IsSpace(Head(s)) THEN <<>> ELSE <<Head(s)>> \o TakeWord(Tail(s))

\* operator>>(istream, string) repeated until the stream is exhausted
RECURSIVE SplitOnWhitespace(_)
SplitOnWhitespace(s) ==
    LET t == SkipSpace(s)
        w == TakeWord(t)
    IN IF t = <<>> THEN <<>>
       ELSE <<w>> \o SplitOnWhitespace(SubSeq(t, Len(w) + 1, Len(t)))

(***************************************************************************)
(* makePeanoOptArgs                                                        *)
(***************************************************************************)
PeanoDefaultFlags ==
    << <<"-", "v", "e", "c", "t", "o", "r", "i", "z", "e", "-", "l", "o", "o",
         "p", "s", "=", "f", "a", "l", "s", "e">>,
       <<"-", "v", "e", "c", "t", "o", "r", "i", "z", "e", "-", "s", "l", "p",
         "=", "f", "a", "l", "s", "e">>,
       <<"-", "-", "t", "w", "o", "-", "e", "n", "t", "r", "y", "-", "p", "h",
         "i", "-", "n", "o", "d", "e", "-", "f", "o", "l", "d", "i", "n", "g",
         "-", "t", "h", "r", "e", "s", "h", "o", "l", "d", "=", "1", "0">>,
       <<"-", "m", "a", "n", "d", "a", "t", "o", "r", "y", "-", "i", "n", "l",
         "i", "n", "i", "n", "g", "-", "b", "e", "f", "o", "r", "e", "-", "o",
         "p", "t", "=", "f", "a", "l", "s", "e">>,
       <<"-", "b", "a", "s", "i", "c", "-", "a", "a", "-", "f", "u", "l", "l",
         "-", "p", "h", "i", "-", "a", "n", "a", "l", "y", "s", "i", "s", "=",
         "t", "r", "u", "e">>,
       <<"-", "b", "a", "s", "i", "c", "-", "a", "a", "-", "m", "a", "x", "-",
         "l", "o", "o", "k", "u", "p", "-", "s", "e", "a", "r", "c", "h", "-",
         "d", "e", "p", "t", "h", "=", "1", "0">>,
       <<"-", "O", "3">>,
       <<"-", "-", "i", "n", "l", "i", "n", "e", "-", "t", "h", "r", "e", "s",
         "h", "o", "l", "d", "=", "1", "0">>,
       <<"-", "-", "d", "i", "s", "a", "b", "l", "e", "-", "b", "u", "i", "l",
         "t", "i", "n", "=", "m", "e", "m", "s", "e", "t">> >>

\* std::vector<std::string> args{...} of makePeanoOptArgs
PeanoInitialArgs(filenameIrIn, filenameIrOut) ==
    PeanoDefaultFlags
        \o << <<"-", "S">>, filenameIrIn, <<"-", "o">>, filenameIrOut >>

isOptLevelFlag(flag) == Len(flag) = 3 /\ flag[1] = "-" /\ flag[2] = "O"

\* a contention test under which equal flags contend as well
isContentionOrEqual(a, b) == (isOptLevelFlag(a) /\ isOptLevelFlag(b)) \/ a = b

isContention(a, b) == isOptLevelFlag(a) /\ isOptLevelFlag(b)

\* a search that never finds a contending flag
FindContentionNever(args, flag) == Len(args) + 1

\* std::find_if(args.begin(), args.end(), bind(isContention, _1, flag)):
\* the index of the first contending element, Len(args) + 1 for args.end()
FindContention(args, flag) ==
    LET hits == {i \in 1..Len(args) : isContention(args[i], flag)}
    IN IF hits = {} THEN Len(args) + 1
       ELSE CHOOSE i \in hits : \A j \in hits : i <= j

\* the loop over additionalFlags: append, or replace the contending flag
RECURSIVE MergeFlags(_, _)
MergeFlags(args, additionalFlags) ==
    IF additionalFlags = <<>> THEN args
    ELSE LET flag == Head(additionalFlags)
             iter == FindContention(args, flag)
             next == IF iter = Len(args) + 1
                     THEN Append(args, flag)
                     ELSE [args EXCEPT ![iter] = flag]
         IN MergeFlags(next, Tail(additionalFlags))

\* a shape check that forgets the closing quote
IsQuoteWrappedFrontOnly(s) == Len(s) >= 2 /\ s[1] = DQ

\* the check that the string starts and ends with a double quote
IsQuoteWrapped(s) == Len(s) >= 2 /\ s[1] = DQ /\ s[Len(s)] = DQ

OptArgsFailure == [ok |-> FALSE, args |-> <<>>]

\* a composer that takes the flag string whatever its shape
makePeanoOptArgsUnchecked(filenameIrIn, filenameIrOut, additionalPeanoOptFlags) ==
    [ok |-> TRUE,
     args |-> MergeFlags(PeanoInitialArgs(filenameIrIn, filenameIrOut),
                         SplitOnWhitespace(additionalPeanoOptFlags))]

makePeanoOptArgs(filenameIrIn, filenameIrOut, additionalPeanoOptFlags) ==
    LET args == PeanoInitialArgs(filenameIrIn, filenameIrOut)
        s == additionalPeanoOptFlags
    IN IF s = <<>> THEN [ok |-> TRUE, args |-> args]
       ELSE IF ~IsQuoteWrapped(s) THEN OptArgsFailure
       ELSE LET stripped == SubSeq(s, 2, Len(s) - 1)
            IN [ok |-> TRUE,
                args |-> MergeFlags(args, SplitOnWhitespace(stripped))]

(***************************************************************************)
(* Optional values, paths and the file system.                             *)
(***************************************************************************)
\* std::optional<T>: the empty sequence, or a sequence of one value
None == <<>>
Some(x) == <<x>>

\* A path is the sequence of its components; its string form (the
\* components joined by "/") and the path parsed from that string carry the
\* same components, so both are written as that sequence.
IsAbsolute(p) == p # <<>> /\ p[1] = "/"

\* std::filesystem::operator/ : an absolute right operand replaces the left
PathJoin(a, b) == IF IsAbsolute(b) THEN b ELSE a \o b

\* std::filesystem::current_path()
Cwd == <<"/", "cwd">>

\* where the operating system finds a (possibly relative) path
OnDisk(p) == PathJoin(Cwd, p)

(***************************************************************************)
(* getTargetDir, findVitis                                                 *)
(***************************************************************************)
getTargetDir(npuVersion) ==
    IF npuVersion = "npu1" THEN [ok |-> TRUE, dir |-> "target_aie_ml"]
    ELSE IF npuVersion = "npu4" THEN [ok |-> TRUE, dir |-> "target_aie2p"]
    ELSE [ok |-> FALSE, dir |-> ""]

\* what dereferencing a failed FailureOr in `*getTargetDir(npuVersion)` can
\* do: stop the process, or yield a directory name that exists or does not
DerefFailedOutcomes == {"abort", "exists", "missing"}

\* the directory findVitis settles on (lines 239-253).  The value of VITIS
\* is read but never stored: with VITIS set and no explicit directory the
\* search path is not probed and vitisDir stays empty.  env.vpp: "absent"
\* (findProgramByName fails), "dangling" (real_path fails) or "resolved".
VitisDirOf(vitisDir, env) ==
    IF vitisDir # None THEN vitisDir
    ELSE IF env.VITIS # None THEN None
    ELSE IF env.vpp = "resolved" THEN Some("vpp/../..")
    ELSE None

\* the license check of lines 259-271: the named file must exist only when
\* the name came from LM_LICENSE_FILE
LicenseOk(env) ==
    IF env.XILINXD_LICENSE_FILE # "unset" THEN TRUE
    ELSE IF env.LM_LICENSE_FILE = "unset" THEN FALSE
    ELSE env.LM_LICENSE_FILE = "exists"

\* the message of lines 263-264 or 268
LicenseMessage(env) ==
    IF env.XILINXD_LICENSE_FILE = "unset" /\ env.LM_LICENSE_FILE = "unset"
    THEN "either XILINXD_LICENSE_FILE or LM_LICENSE_FILE must be set"
    ELSE "license file does not exist"

\* return failure() after the message msg was written
VitisFailure(msg) == [status |-> "failure", dir |-> None, msg |-> msg]

\* lines 237-292.  The value is the result, the directory returned and the
\* message written.
findVitis(vitisDir, npuVersion, env, deref) ==
    LET dir == VitisDirOf(vitisDir, env)
        target == getTargetDir(npuVersion)
        found == [status |-> "success", dir |-> dir, msg |-> ""]
    IN IF dir = None THEN VitisFailure("couldn't find vitis directory")
       ELSE IF ~LicenseOk(env) THEN VitisFailure(LicenseMessage(env))
       ELSE IF ~env.aietools
       THEN VitisFailure("couldn't find aietools directory")
       ELSE IF ~target.ok /\ deref = "abort"
       THEN [status |-> "abort", dir |-> None,
             msg |-> "unsupported NPUVersion"]
       ELSE IF ~target.ok /\ deref = "missing"
       THEN VitisFailure("couldn't find chess-clang")
       ELSE IF ~target.ok THEN found
       ELSE IF ~env.chessClang THEN VitisFailure("couldn't find chess-clang")
       ELSE IF ~env.chessLlvmLink
       THEN VitisFailure("couldn't find chess-llvm-link")
       ELSE found

(***************************************************************************)
(* runTool                                                                 *)
(***************************************************************************)
\* the exit codes a spawned process ends with
ExitCodes == {0, 1, 2}

\* line 484 reads an optional built from a null pointer (line 477): the
\* process is ended, or (the block is compiled out on Windows) nothing happens
NullStringOutcomes == {"abort", "ignored"}

\* What one call of runTool meets: whether the program path exists (423),
\* whether the temporary log file could be created (436-438), whether
\* ExecuteAndWait could start the process and its exit code (464), whether
\* the log file could be opened afterwards (471-473).
AllToolRuns ==
    [ exists : BOOLEAN, tmpFile : BOOLEAN, executed : BOOLEAN,
      exit : ExitCodes, logRead : BOOLEAN, nullString : NullStringOutcomes ]

\* the program exists and exits with 0
ToolRan ==
    [ exists |-> TRUE, tmpFile |-> TRUE, executed |-> TRUE, exit |-> 0,
      logRead |-> TRUE, nullString |-> "abort" ]

\* the runs the pipeline is taken through: the program is missing, exits
\* with 0, exits with 1, or its log cannot be read back
ToolRuns == { [ToolRan EXCEPT !.exists = FALSE], ToolRan,
              [ToolRan EXCEPT !.exit = 1], [ToolRan EXCEPT !.logRead = FALSE] }

\* line 464: the value of ExecuteAndWait (-1: the process could not be started)
ExecuteAndWait(run) == IF run.executed THEN run.exit ELSE -1

\* a runTool that reports success whenever the process was started
runToolIgnoringExitCode(run) ==
    IF ~run.exists \/ ~run.tmpFile
    THEN [ok |-> FALSE, spawned |-> FALSE, aborted |-> FALSE]
    ELSE [ok |-> run.executed, spawned |-> run.executed, aborted |-> FALSE]

\* lines 406-510.  ok: success was returned; spawned: a process was started;
\* aborted: the program ended inside runTool.
runTool(run) ==
    IF ~run.exists THEN [ok |-> FALSE, spawned |-> FALSE, aborted |-> FALSE]
    ELSE IF ~run.tmpFile
    THEN [ok |-> FALSE, spawned |-> FALSE, aborted |-> FALSE]
    ELSE IF ~run.logRead /\ run.nullString = "abort"
    THEN [ok |-> FALSE, spawned |-> run.executed, aborted |-> TRUE]
    ELSE [ok |-> (ExecuteAndWait(run) = 0), spawned |-> run.executed,
          aborted |-> FALSE]

\* the result of any step that runs one tool: the program ended, or the
\* step failed, or it went through
ToolStatus(tool) ==
    IF tool.aborted THEN "abort" ELSE IF tool.ok THEN "success" ELSE "failure"

(***************************************************************************)
(* emitNpuInstructions                                                     *)
(***************************************************************************)
HexDigit == <<"0", "1", "2", "3", "4", "5", "6", "7",
              "8", "9", "A", "B", "C", "D", "E", "F">>

\* A 32-bit unsigned word is kept as its two 16-bit halves, [hi, lo], its
\* value being hi * 65536 + lo.
IsWord(w) == w.hi \in 0..65535 /\ w.lo \in 0..65535
WordDiv16(w) ==
    [hi |-> w.hi \div 16, lo |-> ((w.hi % 16) * 65536 + w.lo) \div 16]
WordMod16(w) == w.lo % 16

\* the hexadecimal digits of w, most significant first, upper case
RECURSIVE HexOf(_)
HexOf(w) ==
    IF w.hi = 0 /\ w.lo < 16 THEN <<HexDigit[w.lo + 1]>>
    ELSE HexOf(WordDiv16(w)) \o <<HexDigit[WordMod16(w) + 1]>>

RECURSIVE ZeroPad(_, _)
ZeroPad(s, width) == IF Len(s) >= width THEN s ELSE ZeroPad(<<"0">> \o s, width)

\* a formatter that pads with blanks, as "%8X" would
Format08XBlankPadded(w) ==
    LET h == HexOf(w)
    IN [i \in 1..(8 - Len(h)) |-> " "] \o h

\* llvm::format("%08X", w) of a 32-bit unsigned word
Format08X(w) == ZeroPad(HexOf(w), 8)

\* the loop of lines 1203-1205 followed by line 1207, for a non-empty array
RECURSIVE NpuText(_)
NpuText(words) ==
    IF Len(words) = 1 THEN Format08X(words[1])
    ELSE Format08X(Head(words)) \o <<"\n">> \o NpuText(Tail(words))

NoFile == [written |-> FALSE, text |-> <<>>]

\* what the loop bound `size() - 1` and `back()` can do on an empty array:
\* both read outside the array
EmptyArrayOutcomes == {"abort", "garbage"}

\* attr: the npu_instructions attribute, [kind, words] with kind "absent",
\* "other" (not a DenseUI32ResourceElementsAttr) or "ui32"
emitNpuInstructions(attr, openOk, oob) ==
    IF attr.kind = "absent" THEN [status |-> "failure", file |-> NoFile]
    ELSE IF attr.kind # "ui32" THEN [status |-> "failure", file |-> NoFile]
    ELSE IF ~openOk THEN [status |-> "failure", file |-> NoFile]
    ELSE IF attr.words = <<>>
         THEN IF oob = "abort"
              THEN [status |-> "abort",
                    file |-> [written |-> TRUE, text |-> <<>>]]
              ELSE [status |-> "success",
                    file |-> [written |-> TRUE, text |-> <<"?">>]]
    ELSE [status |-> "success",
          file |-> [written |-> TRUE, text |-> NpuText(attr.words)]]

(***************************************************************************)
(* Inputs of the flag composer.                                            *)
(***************************************************************************)
FlagChars == {DQ, " ", "\t", "-", "O", "2"}

CharStrings == UNION {[1..n -> FlagChars] : n \in 0..MaxLen}

FlagTokens == { <<"-", "O", "2">>, <<"-", "O", "1">>, <<"-", "g">>,
                <<"-", "-", "i", "n", "l", "i", "n", "e", "-", "t", "h", "r",
                  "e", "s", "h", "o", "l", "d", "=", "1", "0">> }

RECURSIVE JoinTokens(_)
JoinTokens(ts) ==
    IF ts = <<>> THEN <<>>
    ELSE IF Len(ts) = 1 THEN ts[1]
    ELSE ts[1] \o <<" ">> \o JoinTokens(Tail(ts))

TokenStrings ==
    { <<DQ>> \o JoinTokens(ts) \o <<DQ>> :
        ts \in UNION {[1..n -> FlagTokens] : n \in 1..MaxTokens} }

FlagStrings == CharStrings \cup TokenStrings

FileIrIn == <<"i", "n", "p", "u", "t", ".", "l", "l">>
FileIrOut == <<"i", "n", "p", "u", "t", ".", "o", "p", "t", ".", "l", "l">>

(***************************************************************************)
(* The device module.                                                      *)
(***************************************************************************)
\* most tiles of a device module
MaxTiles == 2
\* most words of an npu_instructions attribute
MaxWords == 3

\* 32-bit unsigned instruction words
NpuWords ==
    { [hi |-> 0, lo |-> 0], [hi |-> 0, lo |-> 1], [hi |-> 0, lo |-> 2],
      [hi |-> 0, lo |-> 3], [hi |-> 43981, lo |-> 61202],
      [hi |-> 65535, lo |-> 65535] }

NpuAttrs ==
    { [kind |-> "absent", words |-> <<>>], [kind |-> "other", words |-> <<>>] }
    \cup { [kind |-> "ui32", words |-> w] :
             w \in UNION {[1..n -> NpuWords] : n \in 0..MaxWords} }

\* a tile: its coordinates, whether it carries a core, and the core's
\* elf_file attribute (None when absent)
Tile(col, row, core, elf) ==
    [col |-> col, row |-> row, core |-> core, elf_file |-> elf]

(***************************************************************************)
(* State.                                                                  *)
(***************************************************************************)
VARIABLES
    cfg,        \* the arguments of aie2xclbin
    env,        \* environment variables and installed vendor tools
    device,     \* the caller's module: [tiles, npu, ir]
    pc,         \* the stage aie2xclbin runs next
    tileIdx,    \* the tile generateCoreElfFiles visits next
    ret,        \* "none", or what aie2xclbin returned
    diag,       \* the coordinates named by the last op error, if any
    files,      \* the files on disk, by absolute path
    npuFile,    \* the instruction dump at outputNPU
    partition,  \* the PDI list of aie_partition.json (None: no such file)
    kernels,    \* the kernel list of kernels.json (None: no such file)
    pdi,        \* design.pdi: None, or the number of the bootgen run behind it
    artifact,   \* the file at artifactPath (None: never written)
    log,        \* the processes spawned and subroutines called, in order
    stages,     \* the stages started, in order
    clones,     \* the module clones not yet erased
    baseDump,   \* what the dump of the base container's partition held
    packaged,   \* what the final xclbinutil invocation was handed
    outcomes,   \* the results of the stages that ended, in order
    runs,       \* completed calls of generateCoreElfFiles
    firstRun,   \* the elf_file attributes after the first such call
    optFlags,   \* makePeanoOptArgs: additionalPeanoOptFlags
    optResult,  \* makePeanoOptArgs: the value returned
    probe,      \* the input of the single call under study
    answer      \* the value that call returned

pipeVars == <<cfg, env, device, pc, tileIdx, ret, diag, files, npuFile,
              partition, kernels, pdi, artifact, log, stages, clones,
              baseDump, packaged, outcomes, runs, firstRun>>
optVars == <<optFlags, optResult>>
fnVars == <<probe, answer>>
vars == <<pipeVars, optVars, fnVars>>

NotRun == [ok |-> FALSE, args |-> <<"not run">>]

OptIdle == optFlags = <<>> /\ optResult = NotRun

NotCalled == [fn |-> "none"]

FnIdle == probe = NotCalled /\ answer = NotCalled

(***************************************************************************)
(* aie2xclbin: the order of the stages.                                    *)
(***************************************************************************)
\* lines 1226-1229: the first stage
FirstStage(c) == IF c.outputNPU THEN "npu" ELSE "unified"

\* a pipeline that builds the device image before the configuration data
StageAfterSwapped(stage, c) ==
    CASE stage = "npu" -> "unified"
      [] stage = "unified" -> "elfs"
      [] stage = "elfs" -> "pdi"
      [] stage = "ctrl" -> "cdo"
      [] stage = "cdo" -> IF c.deviceHal = "XRT_LITE" THEN "copy" ELSE "xclbin"
      [] stage = "pdi" -> IF c.emitCtrlPkt THEN "ctrl" ELSE "cdo"
      [] OTHER -> "done"

\* lines 1238-1293: the stage that follows a stage that succeeded
StageAfter(stage, c) ==
    CASE stage = "npu" -> "unified"
      [] stage = "unified" -> "elfs"
      [] stage = "elfs" -> IF c.emitCtrlPkt THEN "ctrl" ELSE "cdo"
      [] stage = "ctrl" -> "cdo"
      [] stage = "cdo" -> "pdi"
      [] stage = "pdi" -> IF c.deviceHal = "XRT_LITE" THEN "copy" ELSE "xclbin"
      [] OTHER -> "done"

\* an orchestrator that goes on after a failed stage
NextPcIgnoringFailure(stage, status, c) == StageAfter(stage, c)

\* every `if (failed(...)) return failure();` of aie2xclbin
NextPc(stage, status, c) ==
    IF status = "success" THEN StageAfter(stage, c) ELSE "done"

\* the value aie2xclbin returns once no stage is left
NextRet(stage, status, c) ==
    IF status # "success" THEN status
    ELSE IF StageAfter(stage, c) = "done" THEN "success"
    ELSE "none"

(***************************************************************************)
(* Initial states.                                                         *)
(***************************************************************************)
PipeStart(Cfgs, Envs, Devices) ==
    /\ cfg \in Cfgs
    /\ env \in Envs
    /\ device \in Devices
    /\ pc = FirstStage(cfg)
    /\ tileIdx = 1
    /\ ret = "none"
    /\ diag = None
    /\ files = {}
    /\ npuFile = NoFile
    /\ partition = None
    /\ kernels = None
    /\ pdi = None
    /\ artifact = None
    /\ log = <<>>
    /\ stages = <<>>
    /\ clones = <<>>
    /\ baseDump = None
    /\ packaged = None
    /\ outcomes = <<>>
    /\ runs = 0
    /\ firstRun = None

BaseCfg ==
    [ outputNPU |-> FALSE, emitCtrlPkt |-> FALSE,
      tempDir |-> <<"/", "tmp", "work">>, useChess |-> FALSE,
      vitisDir |-> None, npuVersion |-> "npu1", peanoDir |-> <<"/", "peano">>,
      deviceHal |-> "XRT_LITE", inputXclbin |-> None, ukernel |-> None,
      additionalPeanoOptFlags |-> <<>>,
      artifactPath |-> <<"/", "out", "artifact">>,
      xclBinKernelID |-> "0x101", xclBinKernelName |-> "kernel",
      xclBinInstanceName |-> "instance" ]

EnvNothing ==
    [ VITIS |-> None, vpp |-> "absent", XILINXD_LICENSE_FILE |-> "unset",
      LM_LICENSE_FILE |-> "unset", aietools |-> FALSE, chessClang |-> FALSE,
      chessLlvmLink |-> FALSE ]

(***************************************************************************)
(* Stage 1: the instruction dump.                                          *)
(***************************************************************************)
StageEmitNpu ==
    /\ pc = "npu"
    /\ \E openOk \in BOOLEAN, oob \in EmptyArrayOutcomes :
         LET r == emitNpuInstructions(device.npu, openOk, oob)
         IN /\ npuFile' = r.file
            /\ pc' = NextPc("npu", r.status, cfg)
            /\ ret' = NextRet("npu", r.status, cfg)
            /\ outcomes' = Append(outcomes, r.status)
    /\ stages' = Append(stages, "npu")
    /\ UNCHANGED <<cfg, env, device, tileIdx, diag, files, partition, kernels,
                   pdi, artifact, log, clones, baseDump, packaged, runs, firstRun>>
    /\ UNCHANGED <<optVars, fnVars>>

(***************************************************************************)
(* assembleStringUsing, assembleFileUsingChess                             *)
(***************************************************************************)
\* one spawned process or subroutine call
Call(tool, mode, ins, out) ==
    [tool |-> tool, mode |-> mode, ins |-> ins, out |-> out]

\* makeChessArgs ends the process (report_fatal_error) for an unknown npuVersion
makeChessArgsOk(npuVersion) == npuVersion \in {"npu1", "npu4"}

\* an output path that is always put under the output directory
AssembledOutputAlwaysJoined(outputFileName, outputDir) ==
    outputDir \o outputFileName

\* lines 545-550: where the object file goes
AssembledOutput(outputFileName, outputDir) ==
    IF ~IsAbsolute(outputFileName) THEN PathJoin(outputDir, outputFileName)
    ELSE outputFileName

\* assembleStringUsing bound to assembleFileUsingChess.  dumpOk: whether
\* the source could be written; run: what runTool meets.
assembleStringUsingChess(inputFileName, outputFileName, outputDir, workDir, npuVersion, dumpOk, run) ==
    LET inputFile == PathJoin(workDir, inputFileName)
        outputFile == AssembledOutput(outputFileName, outputDir)
        tool == runTool(run)
        spawn == IF tool.spawned
                 THEN <<Call("xchesscc", "compile", <<inputFile>>, outputFile)>>
                 ELSE <<>>
    IN IF ~dumpOk
       THEN [status |-> "failure", path |-> None, files |-> {}, log |-> <<>>]
       ELSE IF ~makeChessArgsOk(npuVersion)
       THEN [status |-> "abort", path |-> None,
             files |-> {OnDisk(inputFile)}, log |-> <<>>]
       ELSE IF tool.aborted
       THEN [status |-> "abort", path |-> None,
             files |-> {OnDisk(inputFile), OnDisk(outputFile)}, log |-> spawn]
       ELSE IF ~tool.ok
       THEN [status |-> "failure", path |-> None,
             files |-> {OnDisk(inputFile)}, log |-> spawn]
       ELSE [status |-> "success", path |-> Some(outputFile),
             files |-> {OnDisk(inputFile), OnDisk(outputFile)}, log |-> spawn]

(***************************************************************************)
(* Stage 2: generateUnifiedObject                                          *)
(***************************************************************************)
\* line 1238: Path unifiedObj = tempDirPath / "input.o"
UnifiedObj(c) == PathJoin(c.tempDir, <<"input.o">>)

\* the lowering pipeline of lines 1054-1058 applied to a module
Lowered(m) == [m EXCEPT !.ir = "llvm"]

\* a pass manager run on the caller's module itself
LoweredInPlace(m) == [caller |-> Lowered(m), copy |-> Lowered(m)]

\* lines 1066-1067: the pass manager runs on a clone of the parent module
LoweredOnClone(m) == [caller |-> m, copy |-> Lowered(m)]

\* a call during which nothing outside the program goes wrong
UnifiedAllOk ==
    [ lowerOk |-> TRUE, translateOk |-> TRUE, dumpOk |-> TRUE,
      run1 |-> ToolRan, run2 |-> ToolRan, deref |-> "abort" ]

\* What the outside world answers during one call: one of the in-process
\* steps fails, or the two tool runs end in any way.  The outcome of the
\* dereference is asked for only where getTargetDir fails.
UnifiedInputs(npuVersion) ==
    { [in EXCEPT !.deref = d] :
        in \in { [UnifiedAllOk EXCEPT !.lowerOk = FALSE],
                 [UnifiedAllOk EXCEPT !.translateOk = FALSE],
                 [UnifiedAllOk EXCEPT !.dumpOk = FALSE] }
               \cup { [UnifiedAllOk EXCEPT !.run1 = r1, !.run2 = r2] :
                        r1 \in ToolRuns, r2 \in ToolRuns },
        d \in IF getTargetDir(npuVersion).ok THEN {"abort"}
              ELSE DerefFailedOutcomes }

\* The value is [status, module, clones, files, log]: the result, the
\* caller's module afterwards, the clones left behind, the files written
\* and the processes spawned.
generateUnifiedObject(c, e, module, outputFile, in) ==
    LET lowering == LoweredOnClone(module)
        moduleOpCopy == lowering.copy
        leak == <<moduleOpCopy>>
        fail(fs, lg) == [status |-> "failure", module |-> lowering.caller,
                         clones |-> leak, files |-> fs, log |-> lg]
        vitis == findVitis(c.vitisDir, c.npuVersion, e, in.deref)
        chess == assembleStringUsingChess(<<"input.ll">>, outputFile,
                     c.tempDir, c.tempDir, c.npuVersion, in.dumpOk, in.run1)
        LLVMIRFile == PathJoin(c.tempDir, <<"input.ll">>)
        OptLLVMIRFile == PathJoin(c.tempDir, <<"input.opt.ll">>)
        peanoArgs == makePeanoOptArgs(FileIrIn, FileIrOut,
                                      c.additionalPeanoOptFlags)
        opt == runTool(in.run1)
        llc == runTool(in.run2)
        optCall == IF opt.spawned
                   THEN <<Call("opt", "optimize", <<LLVMIRFile>>, OptLLVMIRFile)>>
                   ELSE <<>>
        llcCall == IF llc.spawned
                   THEN <<Call("llc", "compile", <<OptLLVMIRFile>>, outputFile)>>
                   ELSE <<>>
    IN IF ~in.lowerOk THEN fail({}, <<>>)
       ELSE IF ~in.translateOk THEN fail({}, <<>>)
       ELSE IF c.useChess
       THEN IF vitis.status # "success"
            THEN [fail({}, <<>>) EXCEPT !.status = vitis.status]
            ELSE IF chess.status # "success"
            THEN [fail(chess.files, chess.log) EXCEPT !.status = chess.status]
            ELSE [status |-> "success", module |-> lowering.caller, clones |-> <<>>,
                  files |-> chess.files, log |-> chess.log]
       ELSE IF ~in.dumpOk THEN fail({}, <<>>)
       ELSE IF ~peanoArgs.ok THEN fail({OnDisk(LLVMIRFile)}, <<>>)
       ELSE IF opt.aborted
       THEN [fail({OnDisk(LLVMIRFile), OnDisk(OptLLVMIRFile)}, optCall)
                 EXCEPT !.status = "abort"]
       ELSE IF ~opt.ok THEN fail({OnDisk(LLVMIRFile)}, optCall)
       ELSE IF llc.aborted
       THEN [fail({OnDisk(LLVMIRFile), OnDisk(OptLLVMIRFile),
                   OnDisk(outputFile)}, optCall \o llcCall)
                 EXCEPT !.status = "abort"]
       ELSE IF ~llc.ok
       THEN fail({OnDisk(LLVMIRFile), OnDisk(OptLLVMIRFile)}, optCall \o llcCall)
       ELSE [status |-> "success", module |-> lowering.caller, clones |-> <<>>,
             files |-> {OnDisk(LLVMIRFile), OnDisk(OptLLVMIRFile),
                        OnDisk(outputFile)},
             log |-> optCall \o llcCall]

StageUnifiedObject ==
    /\ pc = "unified"
    /\ \E in \in UnifiedInputs(cfg.npuVersion) :
         LET r == generateUnifiedObject(cfg, env, device, UnifiedObj(cfg), in)
         IN /\ device' = r.module
            /\ clones' = clones \o r.clones
            /\ files' = files \cup r.files
            /\ log' = log \o r.log
            /\ pc' = NextPc("unified", r.status, cfg)
            /\ ret' = NextRet("unified", r.status, cfg)
            /\ outcomes' = Append(outcomes, r.status)
    /\ stages' = Append(stages, "unified")
    /\ UNCHANGED <<cfg, env, tileIdx, diag, npuFile, partition, kernels, pdi,
                   artifact, baseDump, packaged, runs, firstRun>>
    /\ UNCHANGED <<optVars, fnVars>>

(***************************************************************************)
(* Stage 3: generateCoreElfFiles                                           *)
(***************************************************************************)
Digits == <<"0", "1", "2", "3", "4", "5", "6", "7", "8", "9">>

\* std::to_string of a non-negative int
RECURSIVE to_string(_)
to_string(n) ==
    IF n < 10 THEN Digits[n + 1]
    ELSE to_string(n \div 10) \o Digits[(n % 10) + 1]

\* lines 599-600
CoreElfName(col, row) ==
    "core_" \o to_string(col) \o "_" \o to_string(row) \o ".elf"

\* a builder that always synthesizes the name
ElfFileNameOverwriting(tile) == CoreElfName(tile.col, tile.row)

\* lines 595-602: the preset attribute, or the synthesized name
ElfFileName(tile) ==
    IF tile.elf_file # None THEN tile.elf_file[1]
    ELSE CoreElfName(tile.col, tile.row)

\* lines 576-587: the microkernel source and object of a hardware family
UkernelFor(npuVersion) ==
    IF npuVersion = "npu1"
    THEN [ok |-> TRUE, file |-> "mm_npu1.cc", object |-> "mm_npu1.o"]
    ELSE IF npuVersion = "npu4"
    THEN [ok |-> TRUE, file |-> "mm_npu4.cc", object |-> "mm_npu4.o"]
    ELSE [ok |-> FALSE, file |-> "", object |-> ""]

\* ukernel && (ukernel == "mm" || ukernel == "all")
UkernelRequested(c) == c.ukernel \in {Some("mm"), Some("all")}

\* an iteration during which nothing outside the program goes wrong
CoreAllOk ==
    [ dumpMm |-> TRUE, runMm |-> ToolRan, dumpWrapper |-> TRUE,
      runWrapper |-> ToolRan, script |-> "kept", runLink |-> ToolRan ]

\* What the outside world answers during one iteration of the loop: one of
\* the in-process steps fails (a source that cannot be written, a linker
\* script that cannot be opened or translated), or the three tool runs end
\* in any way.
CoreInputs ==
    { [CoreAllOk EXCEPT !.dumpMm = FALSE],
      [CoreAllOk EXCEPT !.dumpWrapper = FALSE],
      [CoreAllOk EXCEPT !.script = "unopened"],
      [CoreAllOk EXCEPT !.script = "untranslated"] }
    \cup { [CoreAllOk EXCEPT !.runMm = r1, !.runWrapper = r2, !.runLink = r3] :
             r1 \in ToolRuns, r2 \in ToolRuns, r3 \in ToolRuns }

\* an op error that names (row, col)
CoordinatesSwapped(tile) == <<tile.row, tile.col>>

\* lines 590-591 and 681-682: the coordinates an op error names
Coordinates(tile) == <<tile.col, tile.row>>

\* a loop that takes every tile for a compute core
HasCoreAlways(tile) == TRUE

\* lines 592-593: AIE::getCoreOp(tileOp)
HasCore(tile) == tile.core

\* One iteration of the loop of lines 589-721 on tile i, with `disk` the
\* files present.  The value is [status, module, files, log, diag]; status
\* "success" means the loop goes on.
CoreElfIteration(c, e, module, disk, objFile, i, in) ==
    LET tile == module.tiles[i]
        elfFileName == ElfFileName(tile)
        named == [module EXCEPT !.tiles[i].elf_file = Some(elfFileName)]
        elfFile == PathJoin(c.tempDir, <<elfFileName>>)
        uk == UkernelFor(c.npuVersion)
        vitis == findVitis(c.vitisDir, c.npuVersion, e, "abort")
        done(st, fs, lg, dg) ==
            [status |-> st, module |-> named, files |-> fs, log |-> lg,
             diag |-> dg]
        \* lines 608-629
        mmCached == PathJoin(Cwd, <<uk.object>>) \in disk
        mm == IF mmCached
              THEN [status |-> "success",
                    path |-> Some(PathJoin(Cwd, <<uk.object>>)),
                    files |-> {}, log |-> <<>>]
              ELSE assembleStringUsingChess(<<uk.file>>, <<uk.object>>, Cwd,
                       c.tempDir, c.npuVersion, in.dumpMm, in.runMm)
        mmFiles == IF UkernelRequested(c) THEN mm.files ELSE {}
        mmLog == IF UkernelRequested(c) THEN mm.log ELSE <<>>
        mmIn == IF UkernelRequested(c) THEN mm.path ELSE <<>>
        \* lines 634-648
        wrapperCached ==
            PathJoin(Cwd, <<"chess_intrinsic_wrapper.o">>) \in disk
        wrapper ==
            IF wrapperCached
            THEN [status |-> "success",
                  path |-> Some(PathJoin(Cwd, <<"chess_intrinsic_wrapper.o">>)),
                  files |-> {}, log |-> <<>>]
            ELSE assembleStringUsingChess(<<"chess_intrinsic_wrapper.cpp">>,
                     <<"chess_intrinsic_wrapper.o">>, c.tempDir, c.tempDir,
                     c.npuVersion, in.dumpWrapper, in.runWrapper)
        bcfPath == PathJoin(c.tempDir, <<elfFileName \o ".bcf">>)
        ldscriptPath == PathJoin(c.tempDir, <<elfFileName \o ".ld">>)
        link == runTool(in.runLink)
        chessLink ==
            IF link.spawned
            THEN <<Call("xchesscc", "link",
                        <<objFile>> \o wrapper.path \o mmIn \o <<bcfPath>>,
                        elfFile)>>
            ELSE <<>>
        peanoLink ==
            IF link.spawned
            THEN <<Call("clang", "link",
                        <<objFile>> \o mmIn \o <<ldscriptPath>>, elfFile)>>
            ELSE <<>>
    IN IF ~HasCore(tile)
       THEN [status |-> "success", module |-> module, files |-> {},
             log |-> <<>>, diag |-> None]
       ELSE IF UkernelRequested(c) /\ vitis.status # "success"
       THEN done("failure", {}, <<>>, None)
       ELSE IF UkernelRequested(c) /\ mm.status # "success"
       THEN done(mm.status, mm.files, mm.log, None)
       ELSE IF c.useChess
       THEN IF vitis.status # "success"
            THEN done("failure", mmFiles, mmLog, None)
            ELSE IF wrapper.status # "success"
            THEN done(wrapper.status, mmFiles \cup wrapper.files,
                      mmLog \o wrapper.log, None)
            ELSE IF in.script # "kept"
            THEN done("failure", mmFiles \cup wrapper.files,
                      mmLog \o wrapper.log, None)
            ELSE IF link.aborted
            THEN done("abort",
                      mmFiles \cup wrapper.files
                          \cup {OnDisk(bcfPath), OnDisk(elfFile)},
                      mmLog \o wrapper.log \o chessLink, None)
            ELSE IF ~link.ok
            THEN done("failure",
                      mmFiles \cup wrapper.files \cup {OnDisk(bcfPath)},
                      mmLog \o wrapper.log \o chessLink,
                      Some(Coordinates(tile)))
            ELSE done("success",
                      mmFiles \cup wrapper.files
                          \cup {OnDisk(bcfPath), OnDisk(elfFile)},
                      mmLog \o wrapper.log \o chessLink, None)
       ELSE IF in.script # "kept"
       THEN done("failure", mmFiles, mmLog, None)
       ELSE IF link.aborted
       THEN done("abort",
                 mmFiles \cup {OnDisk(ldscriptPath), OnDisk(elfFile)},
                 mmLog \o peanoLink, None)
       ELSE IF ~link.ok
       THEN done("failure", mmFiles \cup {OnDisk(ldscriptPath)},
                 mmLog \o peanoLink, None)
       ELSE done("success",
                 mmFiles \cup {OnDisk(ldscriptPath), OnDisk(elfFile)},
                 mmLog \o peanoLink, None)

\* the elf_file attributes of a module, tile by tile
ElfAttrs(module) == [i \in 1..Len(module.tiles) |-> module.tiles[i].elf_file]

\* bookkeeping when a call of generateCoreElfFiles returns
CoreElfReturns(status, module) ==
    /\ pc' = NextPc("elfs", status, cfg)
    /\ ret' = NextRet("elfs", status, cfg)
    /\ outcomes' = Append(outcomes, status)
    /\ runs' = runs + 1
    /\ firstRun' = IF runs = 0 THEN Some(ElfAttrs(module)) ELSE firstRun
    /\ tileIdx' = 1

\* lines 570-587, and the loop over no tile at all
StageCoreElfBegin ==
    /\ pc = "elfs"
    /\ stages' = Append(stages, "elfs")
    /\ IF ~UkernelFor(cfg.npuVersion).ok
       THEN CoreElfReturns("failure", device)
       ELSE IF device.tiles = <<>>
       THEN CoreElfReturns("success", device)
       ELSE /\ pc' = "core"
            /\ UNCHANGED <<ret, outcomes, runs, firstRun, tileIdx>>
    /\ UNCHANGED <<cfg, env, device, diag, files, npuFile, partition, kernels,
                   pdi, artifact, log, clones, baseDump, packaged>>
    /\ UNCHANGED <<optVars, fnVars>>

\* one iteration of the loop; the call returns after the last tile or at
\* the first failure
StageCoreElfIteration ==
    /\ pc = "core"
    /\ \E in \in CoreInputs :
         LET r == CoreElfIteration(cfg, env, device, files, UnifiedObj(cfg),
                                   tileIdx, in)
         IN /\ device' = r.module
            /\ files' = files \cup r.files
            /\ log' = log \o r.log
            /\ diag' = r.diag
            /\ IF r.status = "success" /\ tileIdx < Len(device.tiles)
               THEN /\ tileIdx' = tileIdx + 1
                    /\ UNCHANGED <<pc, ret, outcomes, runs, firstRun>>
               ELSE CoreElfReturns(r.status, r.module)
    /\ UNCHANGED <<cfg, env, npuFile, partition, kernels, pdi, artifact,
                   stages, clones, baseDump, packaged>>
    /\ UNCHANGED <<optVars, fnVars>>

(***************************************************************************)
(* Stage 4: generateControlPackets                                         *)
(***************************************************************************)
\* the two passes of lines 1162-1165 applied to a module
ControlPacketsConverted(m) == [m EXCEPT !.ir = "ctrlpkt"]

\* control-packet passes that run on a copy of the module
generateControlPacketsOnClone(module, passOk, rewritten) ==
    [status |-> IF passOk THEN "success" ELSE "failure", module |-> module]

\* The pass manager runs on deviceOp->getParentOp(), the caller's module
\* itself (line 1166).  A failed pass may already have rewritten the module.
generateControlPackets(module, passOk, rewritten) ==
    [status |-> IF passOk THEN "success" ELSE "failure",
     module |-> IF passOk \/ rewritten THEN ControlPacketsConverted(module)
                ELSE module]

StageControlPackets ==
    /\ pc = "ctrl"
    /\ \E passOk \in BOOLEAN, rewritten \in BOOLEAN :
         LET r == generateControlPackets(device, passOk, rewritten)
         IN /\ device' = r.module
            /\ pc' = NextPc("ctrl", r.status, cfg)
            /\ ret' = NextRet("ctrl", r.status, cfg)
            /\ outcomes' = Append(outcomes, r.status)
    /\ stages' = Append(stages, "ctrl")
    /\ UNCHANGED <<cfg, env, tileIdx, diag, files, npuFile, partition, kernels,
                   pdi, artifact, log, clones, baseDump, packaged, runs, firstRun>>
    /\ UNCHANGED <<optVars, fnVars>>

(***************************************************************************)
(* Stage 5: generateCDO                                                    *)
(***************************************************************************)
\* the blobs named by the descriptor of lines 811-816
CdoFiles(tempDir) ==
    { PathJoin(tempDir, <<"aie_cdo_elfs.bin">>),
      PathJoin(tempDir, <<"aie_cdo_init.bin">>),
      PathJoin(tempDir, <<"aie_cdo_enable.bin">>) }

\* lines 725-736: the translation runs on a clone, erased on success only
generateCDO(module, tempDir, translateOk) ==
    LET copy == module
    IN IF ~translateOk
       THEN [status |-> "failure", module |-> module, clones |-> <<copy>>,
             files |-> {}]
       ELSE [status |-> "success", module |-> module, clones |-> <<>>,
             files |-> {OnDisk(f) : f \in CdoFiles(tempDir)}]

StageCDO ==
    /\ pc = "cdo"
    /\ \E translateOk \in BOOLEAN :
         LET r == generateCDO(device, cfg.tempDir, translateOk)
         IN /\ device' = r.module
            /\ clones' = clones \o r.clones
            /\ files' = files \cup r.files
            /\ pc' = NextPc("cdo", r.status, cfg)
            /\ ret' = NextRet("cdo", r.status, cfg)
            /\ outcomes' = Append(outcomes, r.status)
    /\ stages' = Append(stages, "cdo")
    /\ UNCHANGED <<cfg, env, tileIdx, diag, npuFile, partition, kernels, pdi,
                   artifact, log, baseDump, packaged, runs, firstRun>>
    /\ UNCHANGED <<optVars, fnVars>>

(***************************************************************************)
(* Stage 6: generatePDI                                                    *)
(***************************************************************************)
PdiInputs == [bifOk : BOOLEAN, rc : {0, 1}]

\* the number of bootgen runs made so far
BootgenRuns(lg) == Cardinality({i \in 1..Len(lg) : lg[i].tool = "bootgen"})

\* lines 792-843.  The image written is tagged with the number of the
\* bootgen run that produced it.
generatePDI(Output, tempDir, lg, in) ==
    LET designBifFile == PathJoin(tempDir, <<"design.bif">>)
        call == <<Call("bootgen", "image", <<designBifFile>>, Output)>>
    IN IF ~in.bifOk
       THEN [status |-> "failure", files |-> {}, log |-> <<>>, pdi |-> None]
       ELSE IF in.rc # 0
       THEN [status |-> "failure", files |-> {OnDisk(designBifFile)},
             log |-> call, pdi |-> None]
       ELSE [status |-> "success",
             files |-> {OnDisk(designBifFile), OnDisk(Output)},
             log |-> call, pdi |-> Some(BootgenRuns(lg) + 1)]

\* a device image generated straight at the artifact path
PdiPathAtArtifact(c) == c.artifactPath

\* line 1267
PdiPath(c) == PathJoin(c.tempDir, <<"design.pdi">>)

StagePDI ==
    /\ pc = "pdi"
    /\ \E in \in PdiInputs :
         LET r == generatePDI(PdiPath(cfg), cfg.tempDir, log, in)
         IN /\ files' = files \cup r.files
            /\ log' = log \o r.log
            /\ pdi' = IF r.status = "success" THEN r.pdi ELSE pdi
            /\ pc' = NextPc("pdi", r.status, cfg)
            /\ ret' = NextRet("pdi", r.status, cfg)
            /\ outcomes' = Append(outcomes, r.status)
    /\ stages' = Append(stages, "pdi")
    /\ UNCHANGED <<cfg, env, device, tileIdx, diag, npuFile, partition,
                   kernels, artifact, clones, baseDump, packaged, runs, firstRun>>
    /\ UNCHANGED <<optVars, fnVars>>

(***************************************************************************)
(* Stage 7, XRT_LITE: the copy to the artifact path.                       *)
(***************************************************************************)
\* lines 1273-1282
StageCopy ==
    /\ pc = "copy"
    /\ \E copied \in BOOLEAN :
         LET status == IF copied THEN "success" ELSE "failure"
         IN /\ artifact' = IF copied
                           THEN Some([kind |-> "pdi", image |-> pdi])
                           ELSE artifact
            /\ files' = IF copied THEN files \cup {OnDisk(cfg.artifactPath)}
                        ELSE files
            /\ pc' = NextPc("copy", status, cfg)
            /\ ret' = NextRet("copy", status, cfg)
            /\ outcomes' = Append(outcomes, status)
    /\ stages' = Append(stages, "copy")
    /\ UNCHANGED <<cfg, env, device, tileIdx, diag, npuFile, partition,
                   kernels, pdi, log, clones, baseDump, packaged, runs, firstRun>>
    /\ UNCHANGED <<optVars, fnVars>>

(***************************************************************************)
(* Stage 7, XRT: generateXCLBin                                            *)
(***************************************************************************)
\* most PDI entries of a base container
MaxBasePdis == 2

\* the identifiers uuid::getUUIDString may draw
Uuids == {"uuid-1", "uuid-2"}

KernelArg(name, qualifier, type, offset, memory) ==
    [name |-> name, qualifier |-> qualifier, type |-> type,
     offset |-> offset, memory |-> memory]

\* a kernel descriptor with five buffer arguments, bo0 to bo4
makeKernelJSONFiveBuffers(name, id, instance) ==
    [ name |-> name, type |-> "dpu", dpu_kernel_id |-> id,
      arguments |->
        << KernelArg("opcode", "SCALAR", "uint64_t", <<"0", "x", "0", "0">>, "none"),
           KernelArg("instr", "GLOBAL", "char *", <<"0", "x", "0", "8">>, "SRAM"),
           KernelArg("ninstr", "SCALAR", "uint32_t", <<"0", "x", "1", "0">>, "none"),
           KernelArg("bo0", "GLOBAL", "void*", <<"0", "x", "1", "4">>, "HOST"),
           KernelArg("bo1", "GLOBAL", "void*", <<"0", "x", "1", "c">>, "HOST"),
           KernelArg("bo2", "GLOBAL", "void*", <<"0", "x", "2", "4">>, "HOST"),
           KernelArg("bo3", "GLOBAL", "void*", <<"0", "x", "2", "c">>, "HOST"),
           KernelArg("bo4", "GLOBAL", "void*", <<"0", "x", "3", "4">>, "HOST") >>,
      instances |-> <<instance>> ]

\* lines 738-790.  An offset is kept as the characters of its text.
makeKernelJSON(name, id, instance) ==
    [ name |-> name, type |-> "dpu", dpu_kernel_id |-> id,
      arguments |->
        << KernelArg("opcode", "SCALAR", "uint64_t", <<"0", "x", "0", "0">>, "none"),
           KernelArg("instr", "GLOBAL", "char *", <<"0", "x", "0", "8">>, "SRAM"),
           KernelArg("ninstr", "SCALAR", "uint32_t", <<"0", "x", "1", "0">>, "none"),
           KernelArg("bo0", "GLOBAL", "void*", <<"0", "x", "1", "4">>, "HOST"),
           KernelArg("bo1", "GLOBAL", "void*", <<"0", "x", "1", "c">>, "HOST"),
           KernelArg("bo2", "GLOBAL", "void*", <<"0", "x", "2", "4">>, "HOST"),
           KernelArg("bo3", "GLOBAL", "void*", <<"0", "x", "2", "c">>, "HOST"),
           KernelArg("bo4", "GLOBAL", "void*", <<"0", "x", "3", "4">>, "HOST"),
           KernelArg("bo5", "GLOBAL", "void*", <<"0", "x", "3", "c">>, "HOST") >>,
      instances |-> <<instance>> ]

\* one element of the "PDIs" array of an aie_partition section
PdiEntry(uuid, kernelId) ==
    [uuid |-> uuid, file_name |-> "./design.pdi", dpu_kernel_ids |-> <<kernelId>>]

\* a partition document that lists the new PDI twice
NewPartitionDoubled(uuidStr, kernelId) ==
    <<PdiEntry(uuidStr, kernelId), PdiEntry(uuidStr, kernelId)>>

\* lines 889-922: the "PDIs" array of the generated aie_partition.json
NewPartition(uuidStr, kernelId) == <<PdiEntry(uuidStr, kernelId)>>

\* the PDI entries a base container may hold
BasePdiEntries == {PdiEntry("uuid-0", "0x900"), PdiEntry("uuid-1", "0x101")}

\* what `xclbinutil --dump-section AIE_PARTITION:JSON:...` may leave in
\* aie_input_partition.json
BaseDumps ==
    { [kind |-> k, pdis |-> <<>>] :
        k \in {"not json", "no aie_partition", "no PDIs"} }
    \cup { [kind |-> "ok", pdis |-> l] :
             l \in UNION {[1..n -> BasePdiEntries] : n \in 0..MaxBasePdis} }

\* a merge that puts the new entry first
MergedPdisNewFirst(base, new) == new \o base

\* lines 1005-1006: aieInputPartionPDIs->insert(end, new.begin(), new.end())
MergedPdis(base, new) == base \o new

XclbinJsonPaths(tempDir) ==
    [ mem |-> PathJoin(tempDir, <<"mem_topology.json">>),
      part |-> PathJoin(tempDir, <<"aie_partition.json">>),
      kernels |-> PathJoin(tempDir, <<"kernels.json">>),
      basePart |-> PathJoin(tempDir, <<"aie_input_partition.json">>) ]

DescribeInputs ==
    [ failedWrite : {"none", "mem_topology.json", "aie_partition.json",
                     "kernels.json"},
      uuid : Uuids, pdi : PdiInputs, toolFound : BOOLEAN ]

\* lines 851-962: the three JSON documents, the device image once more,
\* and the search for iree-aie-xclbinutil.  failedWrite names the first
\* dumpStrToDisk that fails.
XclbinDescribe ==
    /\ pc = "xclbin"
    /\ \E in \in DescribeInputs :
         LET j == XclbinJsonPaths(cfg.tempDir)
             memOk == in.failedWrite # "mem_topology.json"
             partOk == memOk /\ in.failedWrite # "aie_partition.json"
             kernOk == partOk /\ in.failedWrite # "kernels.json"
             image == generatePDI(PdiPath(cfg), cfg.tempDir, log, in.pdi)
             found == kernOk /\ image.status = "success" /\ in.toolFound
             status == IF found THEN "success" ELSE "failure"
         IN /\ files' = files
                  \cup (IF memOk THEN {OnDisk(j.mem)} ELSE {})
                  \cup (IF partOk THEN {OnDisk(j.part)} ELSE {})
                  \cup (IF kernOk THEN {OnDisk(j.kernels)} ELSE {})
                  \cup (IF kernOk THEN image.files ELSE {})
            /\ partition' =
                 IF partOk
                 THEN Some(NewPartition(in.uuid, cfg.xclBinKernelID))
                 ELSE partition
            /\ kernels' =
                 IF kernOk
                 THEN Some(<<makeKernelJSON(cfg.xclBinKernelName,
                                 cfg.xclBinKernelID, cfg.xclBinInstanceName)>>)
                 ELSE kernels
            /\ log' = IF kernOk THEN log \o image.log ELSE log
            /\ pdi' = IF kernOk /\ image.status = "success"
                      THEN image.pdi ELSE pdi
            /\ pc' = IF ~found THEN "done"
                     ELSE IF cfg.inputXclbin = None THEN "package"
                     ELSE "merge"
            /\ ret' = IF found THEN "none" ELSE "failure"
            /\ outcomes' = IF found THEN outcomes
                           ELSE Append(outcomes, "failure")
    /\ stages' = Append(stages, "xclbin")
    /\ UNCHANGED <<cfg, env, device, tileIdx, diag, npuFile, artifact, clones,
                   baseDump, packaged, runs, firstRun>>
    /\ UNCHANGED <<optVars, fnVars>>

\* lines 966-1017: dump the base container's partition section, append the
\* new PDI list to it and rewrite aie_partition.json.  A dump that is not
\* the expected JSON is dereferenced all the same (lines 988-990).
XclbinMerge ==
    /\ pc = "merge"
    /\ \E run \in ToolRuns, dumped \in BaseDumps, rewriteOk \in BOOLEAN :
         LET j == XclbinJsonPaths(cfg.tempDir)
             tool == runTool(run)
             status == IF tool.aborted THEN "abort"
                       ELSE IF ~tool.ok THEN "failure"
                       ELSE IF dumped.kind # "ok" THEN "abort"
                       ELSE IF ~rewriteOk THEN "failure"
                       ELSE "success"
         IN /\ log' = IF tool.spawned
                      THEN Append(log, Call("xclbinutil", "dump-section",
                                            cfg.inputXclbin, j.basePart))
                      ELSE log
            /\ files' = IF tool.ok \/ tool.aborted
                        THEN files \cup {OnDisk(j.basePart)}
                        ELSE files
            /\ partition' = IF status = "success"
                            THEN Some(MergedPdis(dumped.pdis, partition[1]))
                            ELSE partition
            /\ baseDump' = IF tool.ok THEN Some(dumped) ELSE baseDump
            /\ pc' = IF status = "success" THEN "package" ELSE "done"
            /\ ret' = IF status = "success" THEN "none" ELSE status
            /\ outcomes' = IF status = "success" THEN outcomes
                           ELSE Append(outcomes, status)
    /\ UNCHANGED <<cfg, env, device, tileIdx, diag, npuFile, kernels, pdi,
                   artifact, stages, clones, packaged, runs, firstRun>>
    /\ UNCHANGED <<optVars, fnVars>>

\* lines 1019-1023: the packaging invocation
XclbinPackage ==
    /\ pc = "package"
    /\ \E run \in ToolRuns :
         LET j == XclbinJsonPaths(cfg.tempDir)
             tool == runTool(run)
             sections == IF cfg.inputXclbin = None
                         THEN <<j.mem, j.kernels, j.part>>
                         ELSE cfg.inputXclbin \o <<j.kernels, j.part>>
             status == ToolStatus(tool)
         IN /\ log' = IF tool.spawned
                      THEN Append(log, Call("xclbinutil", "package", sections,
                                            cfg.artifactPath))
                      ELSE log
            /\ packaged' =
                 IF tool.spawned
                 THEN Some([partition |-> partition[1], kernels |-> kernels[1],
                            input |-> cfg.inputXclbin])
                 ELSE packaged
            /\ artifact' = IF tool.ok \/ tool.aborted
                           THEN Some([kind |-> "xclbin", image |-> pdi])
                           ELSE artifact
            /\ files' = IF tool.ok \/ tool.aborted
                        THEN files \cup {OnDisk(cfg.artifactPath)}
                        ELSE files
            /\ pc' = "done"
            /\ ret' = status
            /\ outcomes' = Append(outcomes, status)
    /\ UNCHANGED <<cfg, env, device, tileIdx, diag, npuFile, partition,
                   kernels, pdi, stages, clones, baseDump, runs, firstRun>>
    /\ UNCHANGED <<optVars, fnVars>>

(***************************************************************************)
(* The pipeline.                                                           *)
(***************************************************************************)
Next ==
    \/ StageEmitNpu
    \/ StageUnifiedObject
    \/ StageCoreElfBegin
    \/ StageCoreElfIteration
    \/ StageControlPackets
    \/ StageCDO
    \/ StagePDI
    \/ StageCopy
    \/ XclbinDescribe
    \/ XclbinMerge
    \/ XclbinPackage

(***************************************************************************)
(* The configurations, environments and device modules of the pipeline.    *)
(***************************************************************************)
\* a vendor tool installation with nothing missing, licensed
EnvComplete ==
    [ VITIS |-> None, vpp |-> "resolved", XILINXD_LICENSE_FILE |-> "exists",
      LM_LICENSE_FILE |-> "unset", aietools |-> TRUE, chessClang |-> TRUE,
      chessLlvmLink |-> TRUE ]

\* the same installation without any license variable
EnvUnlicensed ==
    [EnvComplete EXCEPT !.XILINXD_LICENSE_FILE = "unset"]

\* an explicit vendor directory with a complete or an unlicensed
\* installation, or no explicit directory and nothing to be found
Toolchains ==
    { [vitisDir |-> Some("/opt/vitis"), env |-> EnvComplete],
      [vitisDir |-> Some("/opt/vitis"), env |-> EnvUnlicensed],
      [vitisDir |-> None, env |-> EnvNothing] }

\* additional optimizer flags: none, malformed (no quotes), well formed
PipelineFlags ==
    { <<>>, <<"-", "O", "2">>, <<DQ, "-", "O", "2", DQ>> }

BaseXclbin == <<"/", "in", "base.xclbin">>

\* The arguments of aie2xclbin.  Arguments a configuration never reads are
\* left at one value: the flags with the vendor backend, the base container
\* with the lite target.
PipelineCfgs(NpuVersions, TempDirs) ==
    { [BaseCfg EXCEPT !.outputNPU = o, !.emitCtrlPkt = k, !.useChess = ch,
                      !.npuVersion = np, !.deviceHal = h, !.inputXclbin = x,
                      !.ukernel = u, !.additionalPeanoOptFlags = f,
                      !.tempDir = t, !.vitisDir = tc.vitisDir] :
        o \in BOOLEAN, k \in BOOLEAN, ch \in BOOLEAN, np \in NpuVersions,
        h \in {"XRT", "XRT_LITE"}, x \in {None, Some(BaseXclbin)},
        u \in {None, Some("mm"), Some("all")}, f \in PipelineFlags,
        t \in TempDirs, tc \in Toolchains }

\* the k-th tile of a pipeline device sits at column k - 1, row k + 1
TileAt(k, kind) ==
    Tile(k - 1, k + 1, kind # "none",
         IF kind = "preset" THEN Some("custom.elf") ELSE None)

TileSeqsOf(Kinds) ==
    { [k \in 1..Len(kinds) |-> TileAt(k, kinds[k])] :
        kinds \in UNION {[1..n -> Kinds] : n \in 0..MaxTiles} }

\* tiles without a core and cores without an elf_file attribute
TileSeqs == TileSeqsOf({"none", "core"})

\* the same with cores that carry the attribute "custom.elf"
PresetTileSeqs == TileSeqsOf({"none", "core", "preset"})

\* the instruction attribute of a pipeline device
PipelineNpuAttrs ==
    { [kind |-> "absent", words |-> <<>>],
      [kind |-> "ui32", words |-> <<[hi |-> 0, lo |-> 1], [hi |-> 0, lo |-> 2]>>] }

PipelineDevices ==
    { [tiles |-> t, npu |-> a, ir |-> "aie"] :
        t \in TileSeqs, a \in PipelineNpuAttrs }

\* devices with preset attributes, built with the open backend for the
\* lite target
PresetDevices ==
    { [tiles |-> t, npu |-> [kind |-> "absent", words |-> <<>>], ir |-> "aie"] :
        t \in PresetTileSeqs }

\* arguments and attributes that are never read are left at one value
Relevant ==
    /\ cfg.useChess => cfg.additionalPeanoOptFlags = <<>>
    /\ (~cfg.useChess /\ ~UkernelRequested(cfg)) =>
          (cfg.vitisDir = None /\ env = EnvNothing)
    /\ cfg.deviceHal = "XRT_LITE" => cfg.inputXclbin = None
    /\ ~cfg.outputNPU => device.npu.kind = "absent"
    /\ \E tc \in Toolchains : cfg.vitisDir = tc.vitisDir /\ env = tc.env

\* a working directory given relative to the current directory
RelativeTempDir == <<"work">>

\* both backends with the relative working directory
RelativeCfgs ==
    { [BaseCfg EXCEPT !.tempDir = RelativeTempDir, !.useChess = ch,
                      !.vitisDir = tc.vitisDir] :
        ch \in BOOLEAN, tc \in Toolchains }

Init ==
    /\ \/ PipeStart(PipelineCfgs({"npu1", "npu2"}, {BaseCfg.tempDir}),
                    {tc.env : tc \in Toolchains}, PipelineDevices)
       \/ PipeStart({BaseCfg}, {EnvNothing}, PresetDevices)
       \/ PipeStart(RelativeCfgs, {tc.env : tc \in Toolchains}, PipelineDevices)
    /\ Relevant
    /\ OptIdle
    /\ FnIdle

Spec == Init /\ [][Next]_vars

(***************************************************************************)
(* generateCoreElfFiles alone, called again and again on one module.       *)
(***************************************************************************)
\* most calls of generateCoreElfFiles on one module
MaxRuns == 2

\* tiles at (2,5) and (0,3): no core, a core, a core with a preset attribute
ElfTileSeqs ==
    { [k \in 1..Len(kinds) |->
          Tile(IF k = 1 THEN 2 ELSE 0, IF k = 1 THEN 5 ELSE k + 1,
               kinds[k] # "none",
               IF kinds[k] = "preset" THEN Some("custom.elf") ELSE None)] :
        kinds \in UNION {[1..n -> {"none", "core", "preset"}] :
                            n \in 0..MaxTiles} }

InitElf ==
    /\ PipeStart({ [BaseCfg EXCEPT !.useChess = ch, !.npuVersion = np,
                                   !.vitisDir = Some("/opt/vitis")] :
                     ch \in BOOLEAN, np \in {"npu1", "npu2"} },
                 {EnvComplete},
                 { [tiles |-> t, npu |-> [kind |-> "absent", words |-> <<>>],
                    ir |-> "aie"] : t \in ElfTileSeqs })
    /\ OptIdle
    /\ FnIdle

\* the caller calls generateCoreElfFiles on the same module once more
CallAgain ==
    /\ pc \notin {"elfs", "core"}
    /\ ret # "abort"
    /\ runs < MaxRuns
    /\ pc' = "elfs"
    /\ ret' = "none"
    /\ UNCHANGED <<cfg, env, device, tileIdx, diag, files, npuFile, partition,
                   kernels, pdi, artifact, log, stages, clones, baseDump,
                   packaged, outcomes, runs, firstRun>>
    /\ UNCHANGED <<optVars, fnVars>>

NextElf == StageCoreElfBegin \/ StageCoreElfIteration \/ CallAgain

SpecElf == InitElf /\ [][NextElf]_vars

(***************************************************************************)
(* The instruction dump alone, over every attribute.                       *)
(***************************************************************************)
InitNpu ==
    /\ PipeStart({[BaseCfg EXCEPT !.outputNPU = TRUE]}, {EnvNothing},
                 { [tiles |-> <<>>, npu |-> a, ir |-> "aie"] : a \in NpuAttrs })
    /\ OptIdle
    /\ FnIdle

SpecNpu == InitNpu /\ [][StageEmitNpu]_vars

(***************************************************************************)
(* The flag composer alone, over every additional-flag string.             *)
(***************************************************************************)
InitOpt ==
    /\ PipeStart({BaseCfg}, {EnvNothing},
                 {[tiles |-> <<>>, npu |-> [kind |-> "absent", words |-> <<>>],
                   ir |-> "aie"]})
    /\ optFlags \in FlagStrings
    /\ optResult = NotRun
    /\ FnIdle

ComposeOptArgs ==
    /\ optResult = NotRun
    /\ optResult' = makePeanoOptArgs(FileIrIn, FileIrOut, optFlags)
    /\ UNCHANGED optFlags
    /\ UNCHANGED pipeVars
    /\ UNCHANGED fnVars

NextOpt == ComposeOptArgs

SpecOpt == InitOpt /\ [][NextOpt]_vars

(***************************************************************************)
(* runTool alone: one call, met by every combination of what the file      *)
(* system and the process can answer.                                      *)
(***************************************************************************)
IdleModule == [tiles |-> <<>>, npu |-> [kind |-> "absent", words |-> <<>>], ir |-> "aie"]

InitTool ==
    /\ PipeStart({BaseCfg}, {EnvNothing}, {IdleModule})
    /\ OptIdle
    /\ probe \in {[fn |-> "runTool", run |-> r] : r \in AllToolRuns}
    /\ answer = NotCalled

CallRunTool ==
    /\ probe.fn = "runTool"
    /\ answer = NotCalled
    /\ answer' = runTool(probe.run)
    /\ UNCHANGED <<pipeVars, optVars, probe>>

NextTool == CallRunTool

SpecTool == InitTool /\ [][NextTool]_vars

(***************************************************************************)
(* findVitis alone: one call, for every explicit directory, environment    *)
(* and hardware family.                                                    *)
(***************************************************************************)
\* the states of a license variable: not set, or naming a file that exists
\* or does not
LicenseVars == {"unset", "exists", "missing"}

AllEnvs ==
    [ VITIS : {None, Some("/env/vitis")},
      vpp : {"absent", "dangling", "resolved"},
      XILINXD_LICENSE_FILE : LicenseVars, LM_LICENSE_FILE : LicenseVars,
      aietools : BOOLEAN, chessClang : BOOLEAN, chessLlvmLink : BOOLEAN ]

InitVitis ==
    /\ PipeStart({BaseCfg}, {EnvNothing}, {IdleModule})
    /\ OptIdle
    /\ probe \in [ fn : {"findVitis"}, vitisDir : {None, Some("/opt/vitis")},
                   npuVersion : {"npu1", "npu4", "npu2"}, env : AllEnvs ]
    /\ answer = NotCalled

CallFindVitis ==
    /\ probe.fn = "findVitis"
    /\ answer = NotCalled
    /\ \E deref \in IF getTargetDir(probe.npuVersion).ok THEN {"abort"}
                    ELSE DerefFailedOutcomes :
         answer' = findVitis(probe.vitisDir, probe.npuVersion, probe.env, deref)
    /\ UNCHANGED <<pipeVars, optVars, probe>>

NextVitis == CallFindVitis

SpecVitis == InitVitis /\ [][NextVitis]_vars



(***************************************************************************)
(* Claims about the flag composer (checked under SpecOpt).                 *)
(***************************************************************************)
OptComposed == optResult # NotRun

StartsAndEndsWithQuote(s) == Len(s) >= 1 /\ s[1] = DQ /\ s[Len(s)] = DQ

\* C9 as stated: every additional-flag string that does not both start and
\* end with a double quote makes makePeanoOptArgs fail and return no list.
C9_Original ==
    (OptComposed /\ ~StartsAndEndsWithQuote(optFlags))
        => optResult = OptArgsFailure

\* C9 (amended): every NON-EMPTY additional-flag string that does not both
\* start and end with a double quote makes makePeanoOptArgs return failure
\* with no argument list; the empty string returns the defaults instead.
C9_MalformedFlagsFail ==
    /\ (OptComposed /\ optFlags # <<>> /\ ~StartsAndEndsWithQuote(optFlags))
          => optResult = OptArgsFailure
    /\ (OptComposed /\ optFlags = <<>>) => optResult.ok

C9_Witness ==
    /\ optFlags = <<"-", "O", "2">>
    /\ optResult = OptArgsFailure

OnlyWhitespace(s) == \A i \in 1..Len(s) : s[i] \in {" ", "\t"}

EmptyOrBlankFlags(s) ==
    \/ s = <<>>
    \/ /\ Len(s) >= 2
       /\ s[1] = DQ
       /\ s[Len(s)] = DQ
       /\ OnlyWhitespace(SubSeq(s, 2, Len(s) - 1))

\* C10: composing the defaults with an empty additional-flag string, or one
\* whose quoted content is empty or only whitespace, succeeds with exactly
\* the fixed list: the nine default flags in order ("-O3" seventh), then
\* "-S", the input file, "-o", the output file.
C10_EmptyFlagsGiveDefaults ==
    (OptComposed /\ EmptyOrBlankFlags(optFlags)) =>
        /\ optResult.ok
        /\ Len(optResult.args) = 13
        /\ SubSeq(optResult.args, 1, 9) = PeanoDefaultFlags
        /\ Len(PeanoDefaultFlags) = 9
        /\ optResult.args[7] = <<"-", "O", "3">>
        /\ optResult.args[10] = <<"-", "S">>
        /\ optResult.args[11] = FileIrIn
        /\ optResult.args[12] = <<"-", "o">>
        /\ optResult.args[13] = FileIrOut

C10_Witness ==
    /\ optFlags = <<DQ, " ", "\t", DQ>>
    /\ OptComposed
    /\ optResult.ok

\* an optimization-level token: three characters, the first two "-O"
OptLevelToken(t) == Len(t) = 3 /\ SubSeq(t, 1, 2) = <<"-", "O">>

NotOptLevelToken(t) == ~OptLevelToken(t)

\* the tokens of a well-formed additional-flag string
SuppliedTokens == SplitOnWhitespace(SubSeq(optFlags, 2, Len(optFlags) - 1))

WellFormedFlags == Len(optFlags) >= 2 /\ StartsAndEndsWithQuote(optFlags)

\* C11: for a well-formed additional-flag string with at least one
\* optimization-level token, the composed list holds exactly one
\* optimization-level flag, at the place of the default "-O3" (the seventh),
\* equal to the last optimization-level token supplied; the list grows only
\* by the tokens that are not optimization levels; and "-O2" alone gives the
\* default list with "-O2" for "-O3".
C11_OptLevelReplaced ==
    (OptComposed /\ WellFormedFlags
        /\ SelectSeq(SuppliedTokens, OptLevelToken) # <<>>) =>
        LET levels == SelectSeq(SuppliedTokens, OptLevelToken)
            others == SelectSeq(SuppliedTokens, NotOptLevelToken)
            args == optResult.args
        IN /\ optResult.ok
           /\ {i \in 1..Len(args) : OptLevelToken(args[i])} = {7}
           /\ args[7] = levels[Len(levels)]
           /\ Len(args) = Len(PeanoInitialArgs(FileIrIn, FileIrOut)) + Len(others)
           /\ SuppliedTokens = << <<"-", "O", "2">> >> =>
                 /\ args = [PeanoInitialArgs(FileIrIn, FileIrOut)
                               EXCEPT ![7] = <<"-", "O", "2">>]
                 /\ \A i \in 1..Len(args) : args[i] # <<"-", "O", "3">>

C11_Witness ==
    /\ optFlags = <<DQ>> \o JoinTokens(<< <<"-", "O", "2">>, <<"-", "O", "1">> >>)
                         \o <<DQ>>
    /\ OptComposed
    /\ optResult.args[7] = <<"-", "O", "1">>
    /\ Len(optResult.args) = 13

C11_WitnessO2 ==
    /\ optFlags = <<DQ, "-", "O", "2", DQ>>
    /\ OptComposed
    /\ optResult.args[7] = <<"-", "O", "2">>

\* C26: for every well-formed additional-flag string the composed list is
\* the default list, unchanged except possibly for its optimization-level
\* element, followed by every supplied token that is not an optimization
\* level, in the order supplied; such a token is always appended, also
\* when it equals a default or repeats another token.
C26_OthersAppended ==
    (OptComposed /\ WellFormedFlags) =>
        LET levels == SelectSeq(SuppliedTokens, OptLevelToken)
            others == SelectSeq(SuppliedTokens, NotOptLevelToken)
            defaults == PeanoInitialArgs(FileIrIn, FileIrOut)
            head == IF levels = <<>> THEN defaults
                    ELSE [defaults EXCEPT ![7] = levels[Len(levels)]]
        IN /\ optResult.ok
           /\ optResult.args = head \o others
           /\ \A i \in (1..Len(defaults)) \ {7} : optResult.args[i] = defaults[i]

\* a token equal to a default was supplied twice and is there three times
C26_Witness ==
    /\ OptComposed
    /\ WellFormedFlags
    /\ Len(SuppliedTokens) = 2
    /\ SuppliedTokens[1] = PeanoDefaultFlags[8]
    /\ SuppliedTokens[2] = PeanoDefaultFlags[8]
    /\ Len(optResult.args) = Len(PeanoInitialArgs(FileIrIn, FileIrOut)) + 2
    /\ optResult.args[8] = PeanoDefaultFlags[8]
    /\ optResult.args[14] = PeanoDefaultFlags[8]
    /\ optResult.args[15] = PeanoDefaultFlags[8]

(***************************************************************************)
(* Claims about findVitis (checked under SpecVitis).                       *)
(***************************************************************************)
VitisCalled == probe.fn = "findVitis" /\ answer # NotCalled

\* the install root by the three sources in priority order: the explicit
\* directory, the value of VITIS, the grandparent of the resolved v++
InstallRootByPriority ==
    IF probe.vitisDir # None THEN probe.vitisDir
    ELSE IF probe.env.VITIS # None THEN probe.env.VITIS
    ELSE IF probe.env.vpp = "resolved" THEN Some("vpp/../..")
    ELSE None

ToolchainNotFound == answer.msg = "couldn't find vitis directory"

LicenseMissing ==
    answer.msg \in {"either XILINXD_LICENSE_FILE or LM_LICENSE_FILE must be set",
                    "license file does not exist"}

\* C13: the install root is the explicit directory if given, otherwise the
\* value of VITIS if set, otherwise the grandparent directory of the
\* resolved v++; the call fails with ToolchainNotFound only if none of the
\* three yields a directory.
C13_Original ==
    VitisCalled =>
        /\ ToolchainNotFound => InstallRootByPriority = None
        /\ answer.status = "success" => answer.dir = InstallRootByPriority

\* the license variable that is used: XILINXD_LICENSE_FILE if set,
\* LM_LICENSE_FILE otherwise
UsedLicenseVar ==
    IF probe.env.XILINXD_LICENSE_FILE # "unset"
    THEN probe.env.XILINXD_LICENSE_FILE
    ELSE probe.env.LM_LICENSE_FILE

\* C14: resolution fails with LicenseMissing when neither license variable
\* is set, and whenever the license variable that is used names a file
\* that does not exist, whichever of the two variables supplied the name.
C14_Original ==
    (VitisCalled /\ ~ToolchainNotFound) =>
        (UsedLicenseVar \in {"unset", "missing"} =>
            (answer.status = "failure" /\ LicenseMissing))

(***************************************************************************)
(* Claims about runTool (checked under SpecTool).                          *)
(***************************************************************************)
ToolCalled == probe.fn = "runTool" /\ answer # NotCalled

\* C12: runTool never spawns a process when the program path does not
\* exist and returns failure in that case; when the process is spawned,
\* runTool returns success if and only if the exit code is zero.
C12_Original ==
    ToolCalled =>
        /\ ~probe.run.exists =>
               (~answer.spawned /\ ~answer.ok /\ ~answer.aborted)
        /\ answer.spawned => (answer.ok <=> (probe.run.exit = 0))

\* C12, the part the code keeps: no process for a missing program and a
\* returned failure; whenever runTool returns after a spawned process, it
\* returns success exactly for exit code zero.
C12_ReturnsByExitCode ==
    ToolCalled =>
        /\ ~probe.run.exists =>
               (~answer.spawned /\ ~answer.ok /\ ~answer.aborted)
        /\ (answer.spawned /\ ~answer.aborted) =>
               (answer.ok <=> (probe.run.exit = 0))

\* the process ran to exit code zero and runTool never returned
C12_Witness ==
    /\ ToolCalled
    /\ probe.run.exit = 0
    /\ answer.spawned
    /\ answer.aborted

(***************************************************************************)
(* Claims about the instruction dump (checked under SpecNpu).              *)
(***************************************************************************)
\* the text cut at every newline character, empty pieces kept
RECURSIVE SplitLines(_, _)
SplitLines(text, cur) ==
    IF text = <<>> THEN <<cur>>
    ELSE IF Head(text) = "\n" THEN <<cur>> \o SplitLines(Tail(text), <<>>)
    ELSE SplitLines(Tail(text), Append(cur, Head(text)))

HexValue(ch) == CHOOSE d \in 0..15 : HexDigit[d + 1] = ch

\* acc * 16 + d on a word kept as two halves
ShiftIn(acc, d) ==
    [hi |-> (acc.hi * 16 + acc.lo \div 4096) % 65536,
     lo |-> (acc.lo % 4096) * 16 + d]

RECURSIVE ParseHex(_, _)
ParseHex(s, acc) ==
    IF s = <<>> THEN acc ELSE ParseHex(Tail(s), ShiftIn(acc, HexValue(Head(s))))

IsHexWord(s) ==
    /\ Len(s) = 8
    /\ \A i \in 1..8 : \E d \in 0..15 : HexDigit[d + 1] = s[i]

NpuDumped == stages = <<"npu">>

\* C8: for a non-empty word sequence w1..wn the dump holds exactly n words
\* of 8 zero-padded hex digits, in input order, separated by single newlines
\* and with no newline after the last one (a dump that cannot be opened
\* fails and writes nothing); an absent or wrongly typed attribute makes
\* emitNpuInstructions return failure and write no file.
C8_NpuDumpFormat ==
    /\ (NpuDumped /\ device.npu.kind = "ui32" /\ device.npu.words # <<>>) =>
          \/ ret = "failure" /\ ~npuFile.written
          \/ /\ ret # "failure"
             /\ npuFile.written
             /\ LET lines == SplitLines(npuFile.text, <<>>)
                    words == device.npu.words
                IN /\ Len(lines) = Len(words)
                   /\ \A i \in 1..Len(lines) :
                        IsHexWord(lines[i]) /\ ParseHex(lines[i], [hi |-> 0, lo |-> 0]) = words[i]
                   /\ npuFile.text[Len(npuFile.text)] # "\n"
    /\ (NpuDumped /\ device.npu.kind # "ui32") =>
          ret = "failure" /\ ~npuFile.written

C8_Witness ==
    /\ NpuDumped
    /\ device.npu = [kind |-> "ui32",
                     words |-> <<[hi |-> 0, lo |-> 1], [hi |-> 0, lo |-> 2],
                                 [hi |-> 0, lo |-> 3]>>]
    /\ npuFile.text = <<"0", "0", "0", "0", "0", "0", "0", "1", "\n",
                        "0", "0", "0", "0", "0", "0", "0", "2", "\n",
                        "0", "0", "0", "0", "0", "0", "0", "3">>
    /\ npuFile.written
    /\ Len(npuFile.text) = 26

C8_WitnessAbsent ==
    NpuDumped /\ device.npu.kind = "absent" /\ ret = "failure"

\* C27: for an npu_instructions attribute holding zero words
\* emitNpuInstructions terminates, reads no element outside the empty
\* sequence and writes an empty file (or fails to open the file and writes
\* nothing).
C27_Original ==
    (NpuDumped /\ device.npu.kind = "ui32" /\ device.npu.words = <<>>) =>
        \/ outcomes = <<"failure">> /\ ~npuFile.written
        \/ /\ outcomes = <<"success">>
           /\ npuFile.written
           /\ npuFile.text = <<>>

(***************************************************************************)
(* Claims about the pipeline (checked under Spec).                         *)
(***************************************************************************)
Lite == cfg.deviceHal = "XRT_LITE"

\* findVitis fails whatever else happens
VitisUnresolved ==
    \A d \in DerefFailedOutcomes :
        findVitis(cfg.vitisDir, cfg.npuVersion, env, d).status = "failure"

Compilers == {"xchesscc", "opt", "llc", "clang"}

NoCompilerInvoked == \A i \in 1..Len(log) : log[i].tool \notin Compilers

Invoked(tool) == \E i \in 1..Len(log) : log[i].tool = tool

\* C1 as stated: when the vendor toolchain cannot be resolved and the vendor
\* backend is selected or a microkernel ("mm" or "all") is requested, no
\* xchesscc, opt, llc or clang process is ever spawned and aie2xclbin
\* returns failure.
C1_Original ==
    (VitisUnresolved /\ (cfg.useChess \/ UkernelRequested(cfg))) =>
        /\ NoCompilerInvoked
        /\ pc = "done" => ret = "failure"

\* the stages a run goes through when nothing fails, by the words of C2
ExpectedStages ==
    (IF cfg.outputNPU THEN <<"npu">> ELSE <<>>)
    \o <<"unified", "elfs">>
    \o (IF cfg.emitCtrlPkt THEN <<"ctrl">> ELSE <<>>)
    \o <<"cdo", "pdi">>
    \o (IF Lite THEN <<"copy">> ELSE <<"xclbin">>)

\* C2: the stages started are a prefix of the fixed order (instruction dump
\* if requested, unified object, per-core ELFs, control packets if
\* requested, CDO, PDI, then copy or packaging); a stage has started only
\* if every earlier stage ended in success; a stage that ended in failure
\* is the last one started and aie2xclbin returns failure; a run in which
\* every stage succeeded went through all of them and returns success.
C2_StagesInOrder ==
    /\ Len(stages) <= Len(ExpectedStages)
    /\ stages = SubSeq(ExpectedStages, 1, Len(stages))
    /\ Len(outcomes) \in {Len(stages) - 1, Len(stages)}
    /\ \A i \in 1..Len(outcomes) :
          i < Len(stages) => outcomes[i] = "success"
    /\ \A i \in 1..Len(outcomes) :
          outcomes[i] = "failure" =>
             /\ i = Len(stages)
             /\ pc = "done"
             /\ ret = "failure"
    /\ ret = "success" =>
          /\ stages = ExpectedStages
          /\ Len(outcomes) = Len(stages)
          /\ \A i \in 1..Len(outcomes) : outcomes[i] = "success"
    /\ (ret = "none") = (pc # "done")

C2_Witness ==
    /\ stages = <<"npu", "unified", "elfs", "ctrl", "cdo">>
    /\ outcomes = <<"success", "success", "success", "success", "failure">>
    /\ ret = "failure"

C2_WitnessSuccess ==
    /\ stages = <<"unified", "elfs", "cdo", "pdi", "xclbin">>
    /\ ret = "success"

\* the cores of the device, by position
Cores == {i \in 1..Len(device.tiles) : device.tiles[i].core}

\* what a stage that succeeded leaves in the working directory
StageArtifacts(stage) ==
    CASE stage = "unified" ->
           {IF cfg.useChess THEN AssembledOutput(UnifiedObj(cfg), cfg.tempDir)
            ELSE UnifiedObj(cfg)}
      [] stage = "elfs" ->
           { PathJoin(cfg.tempDir, <<device.tiles[i].elf_file[1]>>) :
               i \in {j \in Cores : device.tiles[j].elf_file # None} }
      [] stage = "cdo" -> CdoFiles(cfg.tempDir)
      [] stage = "pdi" -> {PdiPath(cfg)}
      [] OTHER -> {}

\* the file p lies in the directory d or below it
IsUnder(p, d) ==
    /\ Len(OnDisk(d)) < Len(OnDisk(p))
    /\ SubSeq(OnDisk(p), 1, Len(OnDisk(d))) = OnDisk(d)

ArtifactWritten == OnDisk(cfg.artifactPath) \in files \/ artifact # None

C3_WitnessLite ==
    /\ ret = "failure"
    /\ Lite
    /\ Len(stages) = Len(ExpectedStages)
    /\ OnDisk(PdiPath(cfg)) \in files

\* the ELF files in the working directory
ElfFilesOnDisk ==
    { f \in files :
        \E name \in {"custom.elf"}
                    \cup {CoreElfName(c, r) : c \in 0..MaxTiles, r \in 0..(MaxTiles + 2)} :
            f = OnDisk(PathJoin(cfg.tempDir, <<name>>)) }

JsonFilesOnDisk ==
    { f \in files :
        \E name \in {"mem_topology.json", "aie_partition.json", "kernels.json"} :
            f = OnDisk(PathJoin(cfg.tempDir, <<name>>)) }

\* C4 as stated: a successful run for the lite target with the open backend
\* on a module with n compute cores leaves a copy of design.pdi at the
\* artifact path and n ELF files in the working directory, writes none of
\* the three JSON documents and never invokes the packaging tool.
C4_Original ==
    (ret = "success" /\ Lite /\ ~cfg.useChess) =>
        /\ artifact = Some([kind |-> "pdi", image |-> pdi])
        /\ pdi # None
        /\ OnDisk(cfg.artifactPath) \in files
        /\ Cardinality(ElfFilesOnDisk) = Cardinality(Cores)
        /\ JsonFilesOnDisk = {}
        /\ partition = None /\ kernels = None
        /\ ~Invoked("xclbinutil")

KernelOffsets ==
    << <<"0", "x", "0", "0">>, <<"0", "x", "0", "8">>, <<"0", "x", "1", "0">>,
       <<"0", "x", "1", "4">>, <<"0", "x", "1", "c">>, <<"0", "x", "2", "4">>,
       <<"0", "x", "2", "c">>, <<"0", "x", "3", "4">>, <<"0", "x", "3", "c">> >>

\* C5: for the XRT target without a base container, the partition document
\* handed to the packaging invocation lists exactly one PDI (a generated
\* UUID, the configured kernel id) and is the document written in this run,
\* and the kernel document lists exactly
\* one kernel whose 9 arguments sit at offsets 0x00, 0x08, 0x10, 0x14, 0x1c,
\* 0x24, 0x2c, 0x34, 0x3c in that order.
C5_OnePdiNineArgs ==
    (packaged # None /\ cfg.inputXclbin = None) =>
        LET part == packaged[1].partition
            kern == packaged[1].kernels
        IN /\ partition = Some(part)
           /\ Len(part) = 1
           /\ part[1].uuid \in Uuids
           /\ part[1].dpu_kernel_ids = <<cfg.xclBinKernelID>>
           /\ Len(kern) = 1
           /\ kern[1].dpu_kernel_id = cfg.xclBinKernelID
           /\ Len(kern[1].arguments) = 9
           /\ [i \in 1..9 |-> kern[1].arguments[i].offset] = KernelOffsets
           /\ packaged[1].input = None

C5_Witness ==
    /\ packaged # None
    /\ cfg.inputXclbin = None
    /\ ret = "success"
    /\ artifact # None

\* the position of the first call of a tool in a given mode (0: none)
FirstCall(tool, mode) ==
    LET hits == {i \in 1..Len(log) : log[i].tool = tool /\ log[i].mode = mode}
    IN IF hits = {} THEN 0 ELSE CHOOSE i \in hits : \A j \in hits : i <= j

\* C6: for the XRT target with a base container, the partition document the
\* packaging invocation reads lists the PDIs dumped from the base container,
\* same entries in the same order, followed by exactly one new entry; the
\* document is rewritten before that invocation, which takes the base
\* container as its input.
C6_MergeAppendsOne ==
    /\ (pc = "package" /\ cfg.inputXclbin # None) =>
          /\ baseDump # None
          /\ Len(partition[1]) = Len(baseDump[1].pdis) + 1
    /\ (packaged # None /\ cfg.inputXclbin # None) =>
          LET part == packaged[1].partition
              base == baseDump[1].pdis
          IN /\ baseDump[1].kind = "ok"
             /\ Len(part) = Len(base) + 1
             /\ SubSeq(part, 1, Len(base)) = base
             /\ part[Len(part)].uuid \in Uuids
             /\ part[Len(part)].dpu_kernel_ids = <<cfg.xclBinKernelID>>
             /\ packaged[1].input = cfg.inputXclbin
             /\ FirstCall("xclbinutil", "dump-section") > 0
             /\ FirstCall("xclbinutil", "dump-section")
                   < FirstCall("xclbinutil", "package")
             /\ log[FirstCall("xclbinutil", "package")].ins[1] = cfg.inputXclbin[1]

C6_Witness ==
    /\ packaged # None
    /\ cfg.inputXclbin # None
    /\ baseDump # None
    /\ Len(baseDump[1].pdis) = MaxBasePdis
    /\ baseDump[1].pdis[1] # baseDump[1].pdis[2]
    /\ Len(packaged[1].partition) = MaxBasePdis + 1
    /\ ret = "success"

\* C15: for every hardware-family identifier other than "npu1" and "npu4",
\* with either backend, aie2xclbin returns failure (the process is not
\* ended) and does so before any external tool is invoked.
C15_Original ==
    getTargetDir(cfg.npuVersion).ok \/
        (/\ ret # "abort"
         /\ log = <<>>
         /\ pc = "done" => ret = "failure")

\* the result of generateCoreElfFiles, once it has returned
CoreElfEnded ==
    \E k \in 1..Len(outcomes) : stages[k] = "elfs"

CoreElfOutcome ==
    outcomes[CHOOSE k \in 1..Len(outcomes) : stages[k] = "elfs"]

\* C16: with the open backend, the vendor toolchain is required if and
\* only if a microkernel is requested: with a microkernel requested and
\* the toolchain unresolvable generateCoreElfFiles fails without linking
\* any core; with no microkernel requested nothing of the vendor toolchain
\* is used.
C16_Original ==
    ~cfg.useChess =>
        /\ (UkernelRequested(cfg) /\ VitisUnresolved) =>
               /\ ~Invoked("clang")
               /\ CoreElfEnded => CoreElfOutcome = "failure"
        /\ ~UkernelRequested(cfg) => ~Invoked("xchesscc")

(***************************************************************************)
(* Claims about the ELF names (checked under SpecElf).                     *)
(***************************************************************************)
\* C7 as stated: after any number of calls of generateCoreElfFiles on one
\* module every elf_file attribute equals the value it had after the first
\* call.
C7_Original ==
    (runs >= 1 /\ pc \notin {"elfs", "core"}) =>
        ElfAttrs(device) = firstRun[1]

\* the link call a step has added to the log, if any
NewLinkCalls ==
    { log'[i] : i \in {j \in (Len(log) + 1)..Len(log') : log'[j].mode = "link"} }

\* C7 (amended): in every step of every call, an elf_file attribute that is
\* set is left as it is (a preset attribute is never changed); an attribute
\* that gets set is that of a compute core, is set to core_<col>_<row>.elf,
\* and is set when the loop visits that tile; a tile without a core gets
\* none; and the ELF a core is linked to is named by its attribute.
C7_AssignOnce ==
    [][ \A i \in 1..Len(device.tiles) :
          LET tile == device.tiles[i]
              old == tile.elf_file
              new == device'.tiles[i].elf_file
          IN /\ Len(device'.tiles) = Len(device.tiles)
             /\ old # None => new = old
             /\ (old = None /\ new # None) =>
                   /\ tile.core
                   /\ pc = "core" /\ tileIdx = i
                   /\ new = Some(CoreElfName(tile.col, tile.row))
             /\ ~tile.core => new = None
             /\ (pc = "core" /\ tileIdx = i) =>
                   \A call \in NewLinkCalls :
                       /\ new # None
                       /\ call.out = PathJoin(cfg.tempDir, <<new[1]>>)
      ]_vars

C7_Witness ==
    /\ runs = MaxRuns
    /\ Len(device.tiles) = 2
    /\ device.tiles[1] = Tile(2, 5, TRUE, Some("core_2_5.elf"))
    /\ device.tiles[2] = Tile(0, 3, TRUE, Some("custom.elf"))
    /\ firstRun = Some(<<Some("core_2_5.elf"), Some("custom.elf")>>)
    /\ OnDisk(PathJoin(cfg.tempDir, <<"core_2_5.elf">>)) \in files
    /\ OnDisk(PathJoin(cfg.tempDir, <<"custom.elf">>)) \in files
    /\ outcomes[Len(outcomes)] = "success"
    /\ pc \notin {"elfs", "core"}

\* the link invocations so far, in order
IsLink(call) == call.mode = "link"

LinkCalls == SelectSeq(log, IsLink)

\* the tiles that carry a compute core, in order
IsCoreTile(tile) == tile.core

CoreTiles == SelectSeq(device.tiles, IsCoreTile)

AllSucceeded == \A k \in 1..Len(outcomes) : outcomes[k] = "success"

\* C17: a successful run of generateCoreElfFiles performs exactly one link
\* invocation per tile that carries a compute core, in the order of the
\* tiles and to the ELF named by the tile's attribute, and none for the
\* other tiles; visiting a tile without a compute core never ends the run
\* in failure, and gives the tile no elf_file attribute, starts no process
\* and writes no file.
C17_OneLinkPerCore ==
    /\ []((pc \notin {"elfs", "core"} /\ AllSucceeded) =>
            /\ Len(LinkCalls) = runs * Len(CoreTiles)
            /\ \A k \in 1..Len(LinkCalls) :
                 LET tile == CoreTiles[((k - 1) % Len(CoreTiles)) + 1]
                 IN /\ tile.elf_file # None
                    /\ LinkCalls[k].out =
                           PathJoin(cfg.tempDir, <<tile.elf_file[1]>>))
    /\ [][ (pc = "core" /\ ~device.tiles[tileIdx].core) =>
              /\ device' = device
              /\ device.tiles[tileIdx].elf_file = None
              /\ log' = log
              /\ files' = files
              /\ (Len(outcomes') > Len(outcomes) =>
                      outcomes'[Len(outcomes')] = "success")
         ]_vars

\* a successful run over a tile with a compute core and one without
C17_Witness ==
    /\ runs = 1
    /\ outcomes = <<"success">>
    /\ pc \notin {"elfs", "core"}
    /\ Len(device.tiles) = 2
    /\ device.tiles[1].core
    /\ ~device.tiles[2].core
    /\ device.tiles[2].elf_file = None
    /\ Len(LinkCalls) = 1
    /\ LinkCalls[1].out = PathJoin(cfg.tempDir, <<"core_2_5.elf">>)

(***************************************************************************)
(* Claims about failures at a compute core (checked under Spec).           *)
(***************************************************************************)
\* the step visits a compute core on the vendor path and ends the call of
\* generateCoreElfFiles in failure
VendorCoreFails ==
    /\ pc = "core"
    /\ cfg.useChess
    /\ device.tiles[tileIdx].core
    /\ outcomes' = Append(outcomes, "failure")

\* C18: on the vendor path, any failure while processing a compute core
\* makes generateCoreElfFiles return failure without processing any later
\* core, and the reported failure names the (column,row) of the tile.
C18_Original ==
    [][ VendorCoreFails =>
          /\ pc' = "done"
          /\ ret' = "failure"
          /\ diag' = Some(<<device.tiles[tileIdx].col, device.tiles[tileIdx].row>>)
      ]_vars

\* C18 (amended): on the vendor path, a failure while processing a compute
\* core makes generateCoreElfFiles return failure without processing any
\* later core; the (column,row) of the tile is reported exactly when the
\* failure is that of the link invocation, that is when the core's
\* linker-configuration file was written before the failure; a failed
\* assembly of an auxiliary object and a failed linker-configuration
\* generation are reported without coordinates.
C18_FailureStopsLoop ==
    /\ []((pc = "core" /\ cfg.useChess /\ device.tiles[tileIdx].core) =>
            \A in \in CoreInputs :
                LET r == CoreElfIteration(cfg, env, device, files,
                                          UnifiedObj(cfg), tileIdx, in)
                    tile == device.tiles[tileIdx]
                    bcf == PathJoin(cfg.tempDir,
                               <<r.module.tiles[tileIdx].elf_file[1] \o ".bcf">>)
                IN r.status = "failure" =>
                      /\ r.diag \in {None, Some(<<tile.col, tile.row>>)}
                      /\ r.diag # None <=> OnDisk(bcf) \in r.files)
    /\ [][ VendorCoreFails =>
             LET tile == device.tiles[tileIdx]
             IN /\ pc' = "done"
                /\ ret' = "failure"
                /\ diag' \in {None, Some(<<tile.col, tile.row>>)}
                /\ NewLinkCalls # {} => diag' = Some(<<tile.col, tile.row>>)
         ]_vars

\* the assembly of the intrinsics wrapper failed at the second core: the
\* call has returned failure and no coordinates were reported
C18_Witness ==
    /\ cfg.useChess
    /\ ret = "failure"
    /\ stages[Len(stages)] = "elfs"
    /\ Len(device.tiles) = 2
    /\ device.tiles[1].core /\ device.tiles[2].core
    /\ device.tiles[2].elf_file # None
    /\ Len(LinkCalls) = 1
    /\ log[Len(log)].mode = "compile"
    /\ diag = None

\* the link of the second core failed and its coordinates were reported
C18_WitnessLink ==
    /\ cfg.useChess
    /\ ret = "failure"
    /\ stages[Len(stages)] = "elfs"
    /\ Len(device.tiles) = 2
    /\ Len(LinkCalls) = 2
    /\ log[Len(log)].mode = "link"
    /\ diag = Some(<<device.tiles[2].col, device.tiles[2].row>>)

(***************************************************************************)
(* Claims about the caller's module (checked under Spec).                  *)
(***************************************************************************)
\* C19: generateUnifiedObject and generateCDO leave the caller's device
\* module as it was, whether they succeed or fail: the lowering and the
\* CDO translation work on a clone, so a clone left behind is the lowered
\* module (unified object) or a copy (CDO) and never the caller's module
\* in another state.
C19_CallerModuleUnchanged ==
    [][ (pc \in {"unified", "cdo"}) =>
          /\ device' = device
          /\ \A k \in (Len(clones) + 1)..Len(clones') :
                clones'[k] = (IF pc = "unified" THEN Lowered(device)
                              ELSE device)
      ]_vars

\* both stages have succeeded on a module with a compute core, and the
\* caller's module is still in the form it was handed over in
C19_Witness ==
    /\ pc = "pdi"
    /\ stages = <<"unified", "elfs", "cdo">>
    /\ outcomes = <<"success", "success", "success">>
    /\ device.tiles # <<>>
    /\ device.ir = "aie"
    /\ clones = <<>>

\* the lowering succeeded and a later step of generateUnifiedObject failed:
\* the lowered clone is left behind, the caller's module is not lowered
C19_WitnessFailure ==
    /\ stages = <<"unified">>
    /\ ret = "failure"
    /\ log # <<>>
    /\ device.ir = "aie"
    /\ Len(clones) = 1
    /\ clones[1].ir = "llvm"

(***************************************************************************)
(* Claims about the kernel descriptor (checked under Spec).                *)
(***************************************************************************)
LowerHexDigit == <<"0", "1", "2", "3", "4", "5", "6", "7",
                   "8", "9", "a", "b", "c", "d", "e", "f">>

LowerHexValue(ch) == CHOOSE d \in 0..15 : LowerHexDigit[d + 1] = ch

RECURSIVE HexNumber(_, _)
HexNumber(s, acc) ==
    IF s = <<>> THEN acc
    ELSE HexNumber(Tail(s), acc * 16 + LowerHexValue(Head(s)))

\* the number an offset text "0x.." stands for
OffsetValue(s) == HexNumber(SubSeq(s, 3, Len(s)), 0)

IsOffsetText(s) ==
    /\ Len(s) >= 3
    /\ s[1] = "0" /\ s[2] = "x"
    /\ \A i \in 3..Len(s) : \E d \in 1..16 : LowerHexDigit[d] = s[i]

\* the three fixed arguments: opcode at 0x00, instr at 0x08, ninstr at 0x10
FixedArgsFirst(args) ==
    /\ Len(args) >= 3
    /\ \A i \in 1..Len(args) : IsOffsetText(args[i].offset)
    /\ args[1].name = "opcode" /\ OffsetValue(args[1].offset) = 0
    /\ args[2].name = "instr" /\ OffsetValue(args[2].offset) = 8
    /\ args[3].name = "ninstr" /\ OffsetValue(args[3].offset) = 16

\* the arguments from the fourth on are n host buffer-object pointers
\* bo0, bo1, ... at offsets 0x14, 0x1c, ... (steps of 8)
BufferArgsFollow(args, n) ==
    /\ Len(args) = 3 + n
    /\ \A i \in 1..n :
         LET a == args[3 + i]
         IN /\ a.name = "bo" \o to_string(i - 1)
            /\ a.memory = "HOST"
            /\ a.qualifier = "GLOBAL"
            /\ a.type = "void*"
            /\ OffsetValue(a.offset) = 20 + 8 * (i - 1)

\* C20: in the kernel descriptor the arguments after opcode (0x00), instr
\* (0x08) and ninstr (0x10) are exactly five host buffer-object pointers,
\* whose offsets start at 0x14 and step by 8.
C20_Original ==
    kernels # None =>
        \A k \in 1..Len(kernels[1]) :
            /\ FixedArgsFirst(kernels[1][k].arguments)
            /\ BufferArgsFollow(kernels[1][k].arguments, 5)

\* C20 (amended): in the kernel descriptor the arguments after opcode
\* (0x00), instr (0x08) and ninstr (0x10) are exactly six host
\* buffer-object pointers, bo0 to bo5, whose offsets start at 0x14 and step
\* by 8 up to 0x3c.
C20_SixBufferArgs ==
    kernels # None =>
        \A k \in 1..Len(kernels[1]) :
            /\ FixedArgsFirst(kernels[1][k].arguments)
            /\ BufferArgsFollow(kernels[1][k].arguments, 6)
            /\ OffsetValue(kernels[1][k].arguments[9].offset) = 60

\* kernels.json was written and handed to the packaging invocation
C20_Witness ==
    /\ kernels # None
    /\ Len(kernels[1]) = 1
    /\ kernels[1][1].arguments[9].name = "bo5"
    /\ packaged # None
    /\ packaged[1].kernels = kernels[1]

(***************************************************************************)
(* Claims about the auxiliary objects (checked under Spec).                *)
(***************************************************************************)
\* the assemblies of the object file called name, in order
AssembliesOf(name) ==
    SelectSeq(log, LAMBDA call : call.mode = "compile" /\ call.out[Len(call.out)] = name)

\* C21: during one vendor-path run of generateCoreElfFiles the intrinsics
\* wrapper and the microkernel object are each assembled at most once, and
\* not at all when the object is in the cache directory before the run.
C21_Original ==
    cfg.useChess =>
        /\ Len(AssembliesOf("chess_intrinsic_wrapper.o")) <= 1
        /\ Len(AssembliesOf(UkernelFor(cfg.npuVersion).object)) <= 1
        /\ \A k \in 1..Len(log) :
              log[k].mode = "compile" /\ log[k].out # UnifiedObj(cfg) =>
                  \A j \in 1..(k - 1) : log[j].out # log[k].out

(***************************************************************************)
(* Claims about the files of the cores (checked under Spec).               *)
(***************************************************************************)
\* C22: in one run of generateCoreElfFiles distinct compute cores are
\* linked to distinct files: no two link invocations share the ELF path or
\* the path of the linker script or linker-configuration file.
C22_Original ==
    \A i \in 1..Len(LinkCalls) : \A j \in 1..Len(LinkCalls) :
        i # j =>
            /\ LinkCalls[i].out # LinkCalls[j].out
            /\ LinkCalls[i].ins[Len(LinkCalls[i].ins)]
                   # LinkCalls[j].ins[Len(LinkCalls[j].ins)]

(***************************************************************************)
(* Claims about the open-backend compile step (checked under Spec).        *)
(***************************************************************************)
OptCallOf(c) ==
    Call("opt", "optimize", <<PathJoin(c.tempDir, <<"input.ll">>)>>, PathJoin(c.tempDir, <<"input.opt.ll">>))

LlcCallOf(c) ==
    Call("llc", "compile", <<PathJoin(c.tempDir, <<"input.opt.ll">>)>>, UnifiedObj(c))

\* additional flags that are not empty and not wrapped in double quotes
MalformedFlags ==
    /\ cfg.additionalPeanoOptFlags # <<>>
    /\ ~StartsAndEndsWithQuote(cfg.additionalPeanoOptFlags)

\* C23: on the open-backend path of generateUnifiedObject opt runs before
\* llc and llc reads the file opt wrote; llc is invoked only if opt
\* returned success; neither is invoked if the flag composition fails or
\* if the lowering or the translation failed.
C23_OptThenLlc ==
    /\ []((pc = "unified" /\ ~cfg.useChess) =>
            \A in \in UnifiedInputs(cfg.npuVersion) :
                LET r == generateUnifiedObject(cfg, env, device, UnifiedObj(cfg), in)
                IN /\ r.log \in {<<>>, <<OptCallOf(cfg)>>, <<OptCallOf(cfg), LlcCallOf(cfg)>>}
                   /\ (~in.lowerOk \/ ~in.translateOk \/ MalformedFlags) => r.log = <<>>
                   /\ Len(r.log) = 2 => runTool(in.run1).ok
                   /\ r.status = "success" => Len(r.log) = 2)
    /\ [][ (pc = "unified" /\ ~cfg.useChess) =>
             LET new == SubSeq(log', Len(log) + 1, Len(log'))
             IN /\ new \in {<<>>, <<OptCallOf(cfg)>>, <<OptCallOf(cfg), LlcCallOf(cfg)>>}
                /\ Len(new) = 2 => new[2].ins = <<new[1].out>>
                /\ Len(new) = 2 => OnDisk(new[1].out) \in files'
                /\ MalformedFlags => new = <<>>
         ]_vars

\* opt and then llc have run on well-formed additional flags and the
\* unified object is there
C23_Witness ==
    /\ ~cfg.useChess
    /\ cfg.additionalPeanoOptFlags # <<>>
    /\ Len(log) >= 2
    /\ log[1] = OptCallOf(cfg)
    /\ log[2] = LlcCallOf(cfg)
    /\ outcomes # <<>>
    /\ outcomes[Len(outcomes)] = "success"
    /\ OnDisk(UnifiedObj(cfg)) \in files

\* the flags are malformed: the stage has failed and nothing was invoked
C23_WitnessMalformed ==
    /\ ~cfg.useChess
    /\ cfg.additionalPeanoOptFlags = <<"-", "O", "2">>
    /\ stages = <<"unified">>
    /\ ret = "failure"
    /\ log = <<>>
    /\ OnDisk(PathJoin(cfg.tempDir, <<"input.ll">>)) \in files

(***************************************************************************)
(* Claims about the clones (checked under Spec).                           *)
(***************************************************************************)
\* C24: every clone of the parent module made by generateUnifiedObject or
\* generateCDO is erased before that stage returns, on the success path
\* and on every failure path.
C24_Original == clones = <<>>

(***************************************************************************)
(* Claims about a malformed base container (checked under Spec).           *)
(***************************************************************************)
\* C25: when the dumped partition section of the base container is not
\* JSON, or lacks the aie_partition object or its PDIs array,
\* generateXCLBin returns failure before the packaging invocation; the
\* process is not ended and the packaging does not go ahead.
C25_Original ==
    (baseDump # None /\ baseDump[1].kind # "ok") =>
        /\ pc = "done"
        /\ ret = "failure"
        /\ packaged = None

(***************************************************************************)
(* The unified object between its compile step and the linker.             *)
(***************************************************************************)
\* C28: with either backend and with an absolute or a relative working
\* directory, the unified object that a link invocation takes as its first
\* input is the file that the compile step of generateUnifiedObject wrote
\* earlier in the run.
C28_Original ==
    \A i \in 1..Len(log) :
        IsLink(log[i]) =>
            \E j \in 1..(i - 1) :
                /\ log[j].mode = "compile"
                /\ OnDisk(log[j].out) = OnDisk(log[i].ins[1])

(***************************************************************************)
(* How often the device image is generated.                                *)
(***************************************************************************)
\* C29: when aie2xclbin has returned success, on either target, every stage
\* ran exactly once; bootgen was invoked exactly once and design.pdi is the
\* image written by that one invocation.
C29_Original ==
    ret = "success" =>
        /\ \A i, j \in 1..Len(stages) : stages[i] = stages[j] => i = j
        /\ BootgenRuns(log) = 1
        /\ pdi = Some(1)

(***************************************************************************)
(* The caller's module across a whole run.                                 *)
(***************************************************************************)
\* what a step may do to the tiles: give an elf_file attribute to compute
\* cores that had none, and nothing else
OnlyElfNamesAdded ==
    /\ Len(device'.tiles) = Len(device.tiles)
    /\ \A i \in 1..Len(device.tiles) :
          LET old == device.tiles[i]
              new == device'.tiles[i]
          IN /\ new.col = old.col /\ new.row = old.row /\ new.core = old.core
             /\ new.elf_file # old.elf_file =>
                   (old.core /\ old.elf_file = None /\ new.elf_file # None)

\* C30 as stated: whatever the options, control-packet generation included,
\* no step of the pipeline changes the caller's module except by setting
\* the elf_file attribute of compute cores that lacked one.
C30_Original ==
    [][ /\ device'.ir = device.ir
        /\ device'.npu = device.npu
        /\ OnlyElfNamesAdded
      ]_vars

\* C30: outside the control-packet stage the only change to the caller's
\* module is an elf_file attribute set on a compute core that lacked one;
\* the control-packet stage, which runs only when emitCtrlPkt is set, runs
\* its passes on the caller's module itself, so that module is the converted
\* one whenever the stage succeeds, and without emitCtrlPkt the module
\* keeps its form to the end of the run.
C30_ModuleChangedByElfNamesAndCtrlPkt ==
    /\ [](pc = "ctrl" => cfg.emitCtrlPkt)
    /\ [](~cfg.emitCtrlPkt => device.ir = "aie")
    /\ [][ /\ device'.npu = device.npu
           /\ OnlyElfNamesAdded
           /\ pc # "ctrl" => device'.ir = device.ir
           /\ (pc = "ctrl" /\ outcomes'[Len(outcomes')] = "success") =>
                 device' = ControlPacketsConverted(device)
           /\ pc = "ctrl" => device' \in {device, ControlPacketsConverted(device)}
         ]_vars

\* a run with control packets has returned success: the cores were named
\* and the caller's module is the converted one
C30_Witness ==
    /\ ret = "success"
    /\ cfg.emitCtrlPkt
    /\ device.ir = "ctrlpkt"
    /\ \E i \in 1..Len(device.tiles) :
          device.tiles[i].core /\ device.tiles[i].elf_file # None

\* a run without control packets has returned success and named a core
C30_WitnessNoCtrlPkt ==
    /\ ret = "success"
    /\ ~cfg.emitCtrlPkt
    /\ device.ir = "aie"
    /\ \E i \in 1..Len(device.tiles) :
          device.tiles[i].core /\ device.tiles[i].elf_file # None

====
